---- MODULE Spec2Model ----
(***************************************************************************)
(* Ranking / caching subsystem of the leaderboard service.                 *)
(*                                                                         *)
(* One leaderboard is modelled.  The durable score history (MongoDB        *)
(* collection score_records), the ranking cache (Redis sorted set          *)
(* leaderboard:<id>), the rebuild lock (Redis key ranking_lock:<id>) and   *)
(* the leaderboard registry (MongoDB collection leaderboards in front of   *)
(* which sits the Redis key leaderboard_config:<id>) are the shared state. *)
(* Every service call is a process that performs its store calls one by    *)
(* one; other processes may run between any two store calls.               *)
(*                                                                         *)
(* Modelling conventions                                                   *)
(*  - a store call that returns an error had no effect on the store;       *)
(*  - time.Now() returns a fresh, strictly increasing instant on every     *)
(*    read (submissions of one leaderboard are more than the store's       *)
(*    millisecond resolution apart);                                       *)
(*  - user ids are the numerals 1..NumUsers, whose lexical order (the      *)
(*    sorted set's tie-break) is their numeric order;                      *)
(*  - float64 has a 53 bit significand; the model keeps the rounding rule  *)
(*    (nearest, ties to even) and scales the significand to                *)
(*    SignificandBits bits so that inexact scores are small numbers;       *)
(*  - history is the log of every inserted document and purged counts the  *)
(*    oldest of them the TTL index has removed: Docs is the collection.    *)
(*                                                                         *)
(* Specifications                                                          *)
(*  Spec        SubmitScore, GetRankings, RebuildLeaderboard one call      *)
(*              after the other, store calls failing, expiry between calls *)
(*  OpsSpec     all operations one call after the other                    *)
(*  SubmitSpec  MaxSubmissions submissions one after the other             *)
(*  RebuildSpec concurrent rebuilds (failing) and submissions, no expiry   *)
(*  TwiceSpec   two rebuilds in succession                                 *)
(*  MixSpec     submissions concurrent with reads and rebuilds, expiry at  *)
(*              any time                                                   *)
(*  RaceSpec    concurrent submissions of all processes                    *)
(*  CacheUpSpec submissions one after the other, the history store failing,*)
(*              the cache working                                          *)
(*  BatchSubmitSpec  batch submissions, store calls failing                *)
(*  HandlerSpec requests to the batch endpoint, validated by the handler   *)
(*  LeaseSpec   concurrent rebuilds whose lock lease may run out           *)
(*  DeleteSpec  deletes (failing) concurrent with submissions              *)
(*  RegistrySpec  create, get and update of the configuration, failing     *)
(*  AroundSpec  GetRankingsAroundUser on a warm cache of up to             *)
(*              AroundMembers users, store calls failing                   *)
(*  ColdSpec    GetRankingsAroundUser concurrent with submissions and      *)
(*              rebuilds, the sorted set expiring                          *)
(*  LiveSpec    rebuilds retried under weak fairness, one of them dying    *)
(*              with the lock held, the lease running out                  *)
(*  HandoverSpec  concurrent rebuilds, the lease of a slow one running out *)
(*  ConfigSpec  GetLeaderboard store call by store call, concurrent with   *)
(*              an update of the configuration                             *)
(*  OrderSpec   batch submissions whose entries carry a leaderboard_id     *)
(***************************************************************************)
EXTENDS Integers, Sequences, FiniteSets, TLC

\* ------------------------------------------------------------------ bounds
NumUsers == 2
NumProcs == 2
MaxRecords == 2
MaxSubmissions == 3
MaxBatch == 2
SignificandBits == 2

Users == 1..NumUsers
Procs == 1..NumProcs

\* ------------------------------------------------------- model.SortOrder
SortOrderDesc == "desc"
SortOrderAsc == "asc"
SortOrders == {SortOrderDesc, SortOrderAsc}

\* --------------------------------------------------------------- float64
RECURSIVE Pow2(_)
Pow2(n) == IF n = 0 THEN 1 ELSE 2 * Pow2(n - 1)

\* Largest magnitude up to which every integer is a float64 (2^53 in Go).
Float64Exact == Pow2(SignificandBits)

\* Spacing of the floats around the magnitude x.
RECURSIVE Ulp(_, _)
Ulp(x, q) == IF x < q * Float64Exact THEN q ELSE Ulp(x, 2 * q)

RoundMagnitude(x) ==
    LET q == Ulp(x, 1)
        k == x \div q
        lo == k * q
        rem == x - lo
    IN  IF 2 * rem < q THEN lo
        ELSE IF 2 * rem > q THEN lo + q
        ELSE IF k % 2 = 0 THEN lo ELSE lo + q

\* float64(score): conversion of an int64 to the sorted set's score type.
Float64(score) ==
    IF score >= 0 THEN RoundMagnitude(score) ELSE 0 - RoundMagnitude(0 - score)

\* int64(f) of a float that holds an integer in range: the same integer.
Int64OfFloat(f) == f

\* ------------------------------------------------ Redis sorted set (ZSET)
\* A sorted set is a function from its members to their float scores; the
\* empty function is the absent key.
EmptyZSet == [m \in {} |-> 0]

ZAdd(z, member, score) ==
    [m \in (DOMAIN z) \cup {member} |-> IF m = member THEN score ELSE z[m]]

ZCard(z) == Cardinality(DOMAIN z)

\* Members ordered before m: lower score first, equal scores by member.
ZBefore(z, m) ==
    {v \in DOMAIN z : z[v] < z[m] \/ (z[v] = z[m] /\ v < m)}

\* Client.ZRank: 0-based ascending index, -1 for redis.Nil.
ZRank(z, member) ==
    IF member \in DOMAIN z THEN Cardinality(ZBefore(z, member)) ELSE -1

\* Client.ZRevRank: 0-based descending index, -1 for redis.Nil.
ZRevRank(z, member) ==
    IF member \in DOMAIN z THEN ZCard(z) - 1 - ZRank(z, member) ELSE -1

\* Members with scores in ascending order.
ZAscending(z) ==
    [i \in 1..ZCard(z) |->
        LET m == CHOOSE v \in DOMAIN z : ZRank(z, v) = i - 1
        IN  [member |-> m, score |-> z[m]]]

Reverse(s) == [i \in 1..Len(s) |-> s[Len(s) + 1 - i]]

\* Redis index range start..stop (0-based, inclusive, negative from the end).
IndexRange(s, start, stop) ==
    LET n == Len(s)
        a0 == IF start < 0 THEN start + n ELSE start
        b0 == IF stop < 0 THEN stop + n ELSE stop
        a == IF a0 < 0 THEN 0 ELSE a0
        b == IF b0 >= n THEN n - 1 ELSE b0
    IN  IF a > b \/ a >= n THEN << >> ELSE SubSeq(s, a + 1, b + 1)

ZRangeWithScores(z, start, stop) == IndexRange(ZAscending(z), start, stop)

ZRevRangeWithScores(z, start, stop) ==
    IndexRange(Reverse(ZAscending(z)), start, stop)

\* ------------------------------------------- redis.LeaderboardCache reads
\* GetScore: 0 with no error when the user is not in the sorted set.
GetScore(z, userID) ==
    IF userID \in DOMAIN z THEN Int64OfFloat(z[userID]) ELSE 0

GetRankWrong(z, userID, sortOrder) ==
    LET rank == ZRank(z, userID)
    IN  IF rank = -1 THEN 0 ELSE rank + 1

\* GetRank: 1-based rank, 0 when the user is not in the sorted set.
GetRank(z, userID, sortOrder) ==
    LET rank == IF sortOrder = SortOrderDesc THEN ZRevRank(z, userID)
                ELSE ZRank(z, userID)
    IN  IF rank = -1 THEN 0 ELSE rank + 1

\* GetTopRankings: the first `limit` entries with their 1-based position.
GetTopRankings(z, limit, sortOrder) ==
    LET members == IF sortOrder = SortOrderDesc
                   THEN ZRevRangeWithScores(z, 0, limit - 1)
                   ELSE ZRangeWithScores(z, 0, limit - 1)
    IN  [i \in 1..Len(members) |->
            [user |-> members[i].member,
             score |-> Int64OfFloat(members[i].score),
             rank |-> i]]

RankingsAroundWrong(z, userRank, count, sortOrder) ==
    LET half == count \div 2
        start == userRank - half - 1
        end == userRank + half - 1
        members == IF sortOrder = SortOrderDesc
                   THEN ZRevRangeWithScores(z, start, end)
                   ELSE ZRangeWithScores(z, start, end)
    IN  [i \in 1..Len(members) |->
            [user |-> members[i].member,
             score |-> Int64OfFloat(members[i].score),
             rank |-> start + (i - 1) + 1]]

\* GetRankingsAroundUser, after the rank is known: count/2 entries on either
\* side of userRank, ranks counted from the start of the range.
RankingsAround(z, userRank, count, sortOrder) ==
    LET half == count \div 2
        start0 == userRank - half - 1
        end == userRank + half - 1
        start == IF start0 < 0 THEN 0 ELSE start0
        members == IF sortOrder = SortOrderDesc
                   THEN ZRevRangeWithScores(z, start, end)
                   ELSE ZRangeWithScores(z, start, end)
    IN  [i \in 1..Len(members) |->
            [user |-> members[i].member,
             score |-> Int64OfFloat(members[i].score),
             rank |-> start + (i - 1) + 1]]

GetLeaderboardSize(z) == ZCard(z)

\* --------------------------------------- mongodb.LeaderboardRepository
\* The collection score_records is the sequence of inserted documents
\* [user, score, prev, at] in insertion order.
NoRecord == [user |-> 0, score |-> 0, prev |-> 0, at |-> 0]

RecordsOf(h, userID) == {h[i] : i \in {j \in 1..Len(h) : h[j].user = userID}}

\* GetUserScore: the document of the user with the greatest submitted_at,
\* NoRecord (nil, nil) when the user has none.
GetUserScore(h, userID) ==
    IF RecordsOf(h, userID) = {} THEN NoRecord
    ELSE CHOOSE r \in RecordsOf(h, userID) :
            \A q \in RecordsOf(h, userID) : q.at <= r.at

\* $sort {user_id, submitted_at: -1}, $group $first: one document per user,
\* the one with the greatest submitted_at (for either order of the sort keys).
LatestPerUser(h) ==
    {GetUserScore(h, h[i].user) : i \in 1..Len(h)}

\* bson.M is a Go map: the driver writes the keys of
\* {"score": sortValue, "submitted_at": -1} in the map's iteration order,
\* which the language leaves unspecified.  Either key may lead the $sort.
SortKeyOrders == {"score_first", "submitted_at_first"}

\* q sorts strictly before r under the final $sort.
SortsBefore(q, r, sortOrder, keyOrder) ==
    LET byScore == IF sortOrder = SortOrderAsc THEN q.score < r.score
                   ELSE q.score > r.score
    IN  IF keyOrder = "score_first"
        THEN byScore \/ (q.score = r.score /\ q.at > r.at)
        ELSE q.at > r.at

SortRecords(S, sortOrder, keyOrder) ==
    [i \in 1..Cardinality(S) |->
        CHOOSE r \in S :
            Cardinality({q \in S : SortsBefore(q, r, sortOrder, keyOrder)}) = i - 1]

GetTopScoresNoLimit(h, limit, sortOrder, keyOrder) ==
    SortRecords(LatestPerUser(h), sortOrder, keyOrder)

\* GetTopScores: latest document per user, sorted, cut to `limit` if > 0.
GetTopScores(h, limit, sortOrder, keyOrder) ==
    LET sorted == SortRecords(LatestPerUser(h), sortOrder, keyOrder)
    IN  IF limit > 0 /\ limit < Len(sorted) THEN SubSeq(sorted, 1, limit)
        ELSE sorted

\* GetUserRank: the user's latest document, 0 (an error) without one; then
\* $group leaves documents {_id, latest_score}, the following $match tests
\* their fields leaderboard_id and score, and $count counts the matches.
\* The rank is the count + 1.
RepoGetUserRank(h, userID, sortOrder) ==
    LET userRecord == GetUserScore(h, userID)
        grouped == {[_id |-> r.user, latest_score |-> r.score] :
                        r \in LatestPerUser(h)}
        matched == {g \in grouped :
                        /\ "leaderboard_id" \in DOMAIN g
                        /\ "score" \in DOMAIN g
                        /\ IF sortOrder = SortOrderDesc
                           THEN g.score > userRecord.score
                           ELSE g.score < userRecord.score}
    IN  IF userRecord = NoRecord THEN 0 ELSE Cardinality(matched) + 1

\* ------------------------------------------------------------------ state
VARIABLES
    history,    \* every document inserted into score_records, in order
    purged,     \* how many of the oldest the TTL index has removed
    clock,      \* next instant time.Now() returns
    zset,       \* sorted set leaderboard:<id>
    zttl,       \* TRUE when the sorted set key carries an expiry
    lock,       \* TRUE when the key ranking_lock:<id> exists
    lbDoc,      \* the leaderboard's document in the collection leaderboards
    cfgCache,   \* value of the key leaderboard_config:<id>, NoConfig if absent
    pc,         \* pc[p]: the store call process p performs next
    loc         \* loc[p]: the local variables of the call p is running

vars == <<history, purged, clock, zset, zttl, lock, lbDoc, cfgCache, pc, loc>>

stores == <<history, purged, clock, zset, zttl, lock, lbDoc, cfgCache>>

\* Scores the handlers accept (score >= 0): small ones, and the two around
\* the largest exactly convertible magnitude.
ScoreInputs == {1, 2, Float64Exact + 1}

\* max_entries: CreateLeaderboard turns <= 0 into 10000, UpdateConfig stores
\* the request's value as it is (0 when omitted).
MaxEntriesValues == 0..(NumUsers - 1)

NoConfig == [sortOrder |-> "", maxEntries |-> 0, isActive |-> FALSE]

IdleLoc ==
    [op |-> "", user |-> 0, score |-> 0, sortOrder |-> "", maxEntries |-> 0,
     previousScore |-> 0, previousRank |-> 0, at |-> 0,
     rank |-> 0, rankChange |-> 0, cacheSet |-> "",
     limit |-> 0, offset |-> 0, rankings |-> << >>, source |-> "",
     pending |-> EmptyZSet, batch |-> EmptyZSet,
     cached |-> EmptyZSet, before |-> EmptyZSet, totalUsers |-> 0,
     request |-> << >>, queue |-> << >>, results |-> << >>, errors |-> << >>,
     successCount |-> 0, failureCount |-> 0, lease |-> FALSE, err |-> ""]

Init ==
    /\ history = << >>
    /\ purged = 0
    /\ clock = 1
    /\ zset = EmptyZSet
    /\ zttl = FALSE
    /\ lock = FALSE
    /\ lbDoc \in [sortOrder : SortOrders, maxEntries : MaxEntriesValues,
                  isActive : {TRUE}]
    /\ cfgCache = NoConfig
    /\ pc = [p \in Procs |-> "idle"]
    /\ loc = [p \in Procs |-> IdleLoc]

\* The documents in the collection score_records.
Docs == SubSeq(history, purged + 1, Len(history))

\* ------------------------------------------------- process bookkeeping
Goto(p, label, newloc) ==
    /\ pc' = [pc EXCEPT ![p] = label]
    /\ loc' = [loc EXCEPT ![p] = newloc]

\* The call returns to its caller with loc[p] as its response.
Finish(p, newloc) == Goto(p, "done", newloc)

\* The call of process p has returned / has returned without error.
Returned(p, op) == pc[p] = "done" /\ loc[p].op = op

Succeeded(p, op) == Returned(p, op) /\ loc[p].err = ""

ReturnFromWrong(p, newloc) ==
    IF newloc.op = "BatchSubmitScores" /\ newloc.err = ""
    THEN Goto(p, "bs_next",
              [newloc EXCEPT
                  !.successCount = @ + 1,
                  !.results = Append(@, [user |-> newloc.user,
                                         score |-> newloc.score,
                                         previousScore |-> newloc.previousScore,
                                         rank |-> newloc.rank,
                                         previousRank |-> newloc.previousRank,
                                         rankChange |-> newloc.rankChange])])
    ELSE Finish(p, newloc)

\* Where a SubmitScore returns to: its caller, or the loop of
\* BatchSubmitScores, which counts the outcome (a result on success, an
\* error message otherwise) and goes on with the next entry.
ReturnFrom(p, newloc) ==
    IF newloc.op = "BatchSubmitScores"
    THEN Goto(p, "bs_next",
              [newloc EXCEPT
                  !.successCount = IF newloc.err = "" THEN @ + 1 ELSE @,
                  !.failureCount = IF newloc.err = "" THEN @ ELSE @ + 1,
                  !.results = IF newloc.err = ""
                              THEN Append(@, [user |-> newloc.user,
                                              score |-> newloc.score,
                                              previousScore |-> newloc.previousScore,
                                              rank |-> newloc.rank,
                                              previousRank |-> newloc.previousRank,
                                              rankChange |-> newloc.rankChange])
                              ELSE @,
                  !.errors = IF newloc.err = "" THEN @
                             ELSE Append(@, newloc.user),
                  !.err = ""])
    ELSE Finish(p, newloc)

\* Reads of time.Now() the calls in progress have yet to make.  The bounds
\* MaxRecords and MaxSubmissions limit the submissions of a run (each reads
\* the clock once).
RECURSIVE ClockReadsAhead(_)
ClockReadsAhead(S) ==
    IF S = {} THEN 0
    ELSE LET p == CHOOSE q \in S : TRUE
         IN  Len(loc[p].queue)
             + (IF pc[p] \in {"sub_getuserscore", "sub_previousrank"} THEN 1 ELSE 0)
             + ClockReadsAhead(S \ {p})

SubmitsInFlight == ClockReadsAhead(Procs)

GetLeaderboardWrong(p, op, label, cacheHit, mongoOK, setOK, newloc) ==
    IF cacheHit /\ cfgCache # NoConfig
    THEN /\ Goto(p, label, [newloc EXCEPT !.op = op,
                               !.sortOrder = cfgCache.sortOrder,
                               !.maxEntries = cfgCache.maxEntries])
         /\ UNCHANGED cfgCache
    ELSE IF mongoOK
    THEN /\ Goto(p, label, [newloc EXCEPT !.op = op,
                               !.sortOrder = lbDoc.sortOrder,
                               !.maxEntries = lbDoc.maxEntries])
         /\ cfgCache' = IF setOK THEN lbDoc ELSE cfgCache
    ELSE /\ ReturnFrom(p, [newloc EXCEPT !.op = op, !.err = "get_leaderboard"])
         /\ UNCHANGED cfgCache

\* ------------------------------------- leaderboardService.GetLeaderboard
\* Cache-aside read of the configuration.  The registry is not written by
\* any other call of this specification, so the three store calls are taken
\* as one step.  cacheHit: the cached value was read; mongoOK / setOK: the
\* durable read and the cache write succeeded.
\*
\* Every store call of a step draws its outcome (TRUE: it succeeded) from the
\* set O the specification passes: BOOLEAN where store calls may fail, {TRUE}
\* where all of them succeed.
GetLeaderboard(p, op, label, cacheHit, mongoOK, setOK, newloc) ==
    IF cacheHit /\ cfgCache # NoConfig
    THEN /\ Goto(p, label, [newloc EXCEPT !.op = op,
                               !.sortOrder = cfgCache.sortOrder,
                               !.maxEntries = cfgCache.maxEntries])
         /\ UNCHANGED cfgCache
    ELSE IF mongoOK /\ lbDoc.isActive
    THEN /\ Goto(p, label, [newloc EXCEPT !.op = op,
                               !.sortOrder = lbDoc.sortOrder,
                               !.maxEntries = lbDoc.maxEntries])
         /\ cfgCache' = IF setOK THEN lbDoc ELSE cfgCache
    ELSE /\ ReturnFrom(p, [newloc EXCEPT !.op = op, !.err = "get_leaderboard"])
         /\ UNCHANGED cfgCache

\* A call of GetLeaderboard on its own (LeaderboardHandler.Get): the
\* response carries the configuration.
LeaderboardGet(p, O) ==
    /\ pc[p] = "idle"
    /\ \E cacheHit, mongoOK, setOK \in O :
          GetLeaderboard(p, "GetLeaderboard", "done", cacheHit, mongoOK, setOK,
                         IdleLoc)
    /\ UNCHANGED <<history, purged, clock, zset, zttl, lock, lbDoc>>

\* ---------------------------------- leaderboardService.CreateLeaderboard
\* The id is generated from a fresh uuid, so the leaderboard is created
\* where it has no document (lbDoc = NoConfig).  max_entries <= 0 becomes
\* 10000; the repository sets is_active and inserts; an error returns.
CreateInsert(p, sortOrder, maxEntries, O) ==
    /\ pc[p] = "idle"
    /\ lbDoc = NoConfig
    /\ \E ok \in O :
          LET leaderboard ==
                  [sortOrder |-> sortOrder,
                   maxEntries |-> IF maxEntries <= 0 THEN 10000 ELSE maxEntries,
                   isActive |-> TRUE]
          IN  IF ok
              THEN /\ lbDoc' = leaderboard
                   /\ Goto(p, "cr_cache",
                           [IdleLoc EXCEPT !.op = "CreateLeaderboard",
                                           !.sortOrder = leaderboard.sortOrder,
                                           !.maxEntries = leaderboard.maxEntries])
              ELSE /\ Finish(p, [IdleLoc EXCEPT !.op = "CreateLeaderboard",
                                                !.err = "create_leaderboard"])
                   /\ UNCHANGED lbDoc
    /\ UNCHANGED <<history, purged, clock, zset, zttl, lock, cfgCache>>

\* redisCache.SetLeaderboardConfig(leaderboard): an error is logged.
CreateCache(p, O) ==
    /\ pc[p] = "cr_cache"
    /\ \E ok \in O :
          /\ cfgCache' = IF ok
                          THEN [sortOrder |-> loc[p].sortOrder,
                                maxEntries |-> loc[p].maxEntries,
                                isActive |-> TRUE]
                          ELSE cfgCache
          /\ Finish(p, [loc[p] EXCEPT !.source = IF ok THEN "cached"
                                                 ELSE "cache_failed"])
    /\ UNCHANGED <<history, purged, clock, zset, zttl, lock, lbDoc>>

\* ---------------------------------- leaderboardService.UpdateLeaderboard
\* LeaderboardHandler.UpdateConfig: the configuration is fetched with
\* GetLeaderboard (is_active is true in whatever it returns) ...
UpdateStart(p, O) ==
    /\ pc[p] = "idle"
    /\ \E cacheHit, mongoOK, setOK \in O :
          GetLeaderboard(p, "UpdateLeaderboard", "up_db", cacheHit, mongoOK,
                         setOK, IdleLoc)
    /\ UNCHANGED <<history, purged, clock, zset, zttl, lock, lbDoc>>

\* ... its sort order and max_entries are replaced by the request's, and
\* UpdateLeaderboard begins: mongoRepo.UpdateLeaderboard, UpdateOne by id
\* with $set of the fields; an error, and no document matched, return.
UpdateDocument(p, sortOrder, maxEntries, O) ==
    /\ pc[p] = "up_db"
    /\ \E ok \in O :
          IF ok /\ lbDoc # NoConfig
          THEN /\ lbDoc' = [sortOrder |-> sortOrder, maxEntries |-> maxEntries,
                            isActive |-> TRUE]
               /\ Goto(p, "up_cache", [loc[p] EXCEPT !.sortOrder = sortOrder,
                                                     !.maxEntries = maxEntries])
          ELSE /\ Finish(p, [loc[p] EXCEPT !.sortOrder = sortOrder,
                                           !.maxEntries = maxEntries,
                                           !.err = "update_leaderboard"])
               /\ UNCHANGED lbDoc
    /\ UNCHANGED <<history, purged, clock, zset, zttl, lock, cfgCache>>

UpdateCacheWrong(p, O) ==
    /\ pc[p] = "up_cache"
    /\ \E ok \in O :
          /\ cfgCache' = IF ok
                          THEN [sortOrder |-> loc[p].sortOrder,
                                maxEntries |-> loc[p].maxEntries,
                                isActive |-> TRUE]
                          ELSE cfgCache
          /\ Finish(p, [loc[p] EXCEPT !.source = IF ok THEN "cached"
                                                 ELSE "cache_failed",
                                      !.err = IF ok THEN "" ELSE "set_config"])
    /\ UNCHANGED <<history, purged, clock, zset, zttl, lock, lbDoc>>

\* redisCache.SetLeaderboardConfig(leaderboard): an error is logged.
UpdateCache(p, O) ==
    /\ pc[p] = "up_cache"
    /\ \E ok \in O :
          /\ cfgCache' = IF ok
                          THEN [sortOrder |-> loc[p].sortOrder,
                                maxEntries |-> loc[p].maxEntries,
                                isActive |-> TRUE]
                          ELSE cfgCache
          /\ Finish(p, [loc[p] EXCEPT !.source = IF ok THEN "cached"
                                                 ELSE "cache_failed"])
    /\ UNCHANGED <<history, purged, clock, zset, zttl, lock, lbDoc>>

\* --------------------------------------- leaderboardService.SubmitScore
SubmitStart(p, userID, score, O) ==
    /\ pc[p] = "idle"
    /\ \E cacheHit, mongoOK, setOK \in O :
          GetLeaderboard(p, "SubmitScore", "sub_getuserscore",
                         cacheHit, mongoOK, setOK,
                         [IdleLoc EXCEPT !.user = userID, !.score = score])
    /\ UNCHANGED <<history, purged, clock, zset, zttl, lock, lbDoc>>

\* currentRecord, err := mongoRepo.GetUserScore(...).  With a record the
\* previous rank is read next; without one (or on error) the record to insert
\* is built at once, which reads time.Now().
SubmitGetUserScore(p, O) ==
    /\ pc[p] = "sub_getuserscore"
    /\ \E ok \in O :
          LET currentRecord == GetUserScore(Docs, loc[p].user)
          IN  IF ok /\ currentRecord # NoRecord
              THEN /\ Goto(p, "sub_previousrank",
                           [loc[p] EXCEPT !.previousScore = currentRecord.score])
                   /\ UNCHANGED clock
              ELSE /\ Goto(p, "sub_create", [loc[p] EXCEPT !.at = clock])
                   /\ clock' = clock + 1
    /\ UNCHANGED <<history, purged, zset, zttl, lock, lbDoc, cfgCache>>

\* previousRank, _ = redisCache.GetRank(...): 0 on error.  Then the record
\* is built: SubmittedAt: time.Now().  loc[p].before records the sorted set
\* as this read found it.
SubmitPreviousRank(p, O) ==
    /\ pc[p] = "sub_previousrank"
    /\ \E ok \in O :
          Goto(p, "sub_create",
               [loc[p] EXCEPT
                   !.previousRank =
                       IF ok THEN GetRank(zset, loc[p].user, loc[p].sortOrder)
                       ELSE 0,
                   !.before = zset,
                   !.at = clock])
    /\ clock' = clock + 1
    /\ UNCHANGED <<history, purged, zset, zttl, lock, lbDoc, cfgCache>>

CreateScoreRecordWrong(h, record) ==
    [i \in 1..Len(h) |-> IF h[i].user = record.user THEN record ELSE h[i]]

\* mongodb CreateScoreRecord: InsertOne of a new document.
CreateScoreRecord(h, record) == Append(h, record)

SubmitCreateRecordWrong(p, O) ==
    /\ pc[p] = "sub_create"
    /\ \E ok \in O :
          /\ history' = IF ok
                        THEN CreateScoreRecord(history,
                                [user |-> loc[p].user, score |-> loc[p].score,
                                 prev |-> loc[p].previousScore, at |-> loc[p].at])
                        ELSE history
          /\ Goto(p, "sub_setscore", loc[p])
    /\ UNCHANGED <<purged, clock, zset, zttl, lock, lbDoc, cfgCache>>

\* err = mongoRepo.CreateScoreRecord(ctx, scoreRecord); an error returns.
SubmitCreateRecord(p, O) ==
    /\ pc[p] = "sub_create"
    /\ \E ok \in O :
          IF ok
          THEN /\ history' = CreateScoreRecord(history,
                                [user |-> loc[p].user, score |-> loc[p].score,
                                 prev |-> loc[p].previousScore, at |-> loc[p].at])
               /\ Goto(p, "sub_setscore", loc[p])
          ELSE /\ ReturnFrom(p, [loc[p] EXCEPT !.err = "create_score_record"])
               /\ UNCHANGED history
    /\ UNCHANGED <<purged, clock, zset, zttl, lock, lbDoc, cfgCache>>

SubmitSetScoreWrong(p, O) ==
    /\ pc[p] = "sub_setscore"
    /\ \E ok \in O :
          IF ok
          THEN /\ zset' = ZAdd(zset, loc[p].user, Float64(loc[p].score))
               /\ zttl' = TRUE
               /\ Goto(p, "sub_newrank", [loc[p] EXCEPT !.cacheSet = "ok"])
          ELSE /\ ReturnFrom(p, [loc[p] EXCEPT !.cacheSet = "failed",
                                               !.err = "set_score"])
               /\ UNCHANGED <<zset, zttl>>
    /\ UNCHANGED <<history, purged, clock, lock, lbDoc, cfgCache>>

SubmitSetScoreStale(p, O) ==
    /\ pc[p] = "sub_setscore"
    /\ \E ok, expireOK \in O :
          /\ zset' = IF loc[p].user \in DOMAIN zset
                        /\ zset[loc[p].user] >= Float64(loc[p].score)
                     THEN zset
                     ELSE ZAdd(zset, loc[p].user, Float64(loc[p].score))
          /\ zttl' = (zttl \/ expireOK)
          /\ Goto(p, "sub_newrank", [loc[p] EXCEPT !.cacheSet = "ok"])
    /\ UNCHANGED <<history, purged, clock, lock, lbDoc, cfgCache>>

\* redisCache.SetScore: ZADD, whose error is returned and logged by the
\* service; then EXPIRE 24h, whose error is dropped.
SubmitSetScore(p, O) ==
    /\ pc[p] = "sub_setscore"
    /\ \E ok, expireOK \in O :
          IF ok
          THEN /\ zset' = ZAdd(zset, loc[p].user, Float64(loc[p].score))
               /\ zttl' = (zttl \/ expireOK)
               /\ Goto(p, "sub_newrank",
                       [loc[p] EXCEPT !.cacheSet = IF expireOK THEN "ok"
                                                   ELSE "ok_no_expire"])
          ELSE /\ Goto(p, "sub_newrank", [loc[p] EXCEPT !.cacheSet = "failed"])
               /\ UNCHANGED <<zset, zttl>>
    /\ UNCHANGED <<history, purged, clock, lock, lbDoc, cfgCache>>

RankChangeWrong(previousRank, newRank) == previousRank - newRank

\* rankChange: previousRank - newRank when both are > 0, else 0.
RankChange(previousRank, newRank) ==
    IF previousRank > 0 /\ newRank > 0 THEN previousRank - newRank ELSE 0

\* newRank, err := redisCache.GetRank(...); on error newRank = 0.  The
\* response is built and returned.
SubmitNewRank(p, O) ==
    /\ pc[p] = "sub_newrank"
    /\ \E ok \in O :
          LET newRank == IF ok THEN GetRank(zset, loc[p].user, loc[p].sortOrder)
                         ELSE 0
          IN  ReturnFrom(p, [loc[p] EXCEPT
                                !.rank = newRank,
                                !.rankChange = RankChange(loc[p].previousRank, newRank)])
    /\ UNCHANGED stores

\* ------------------------------------ redis BatchSetScores (a pipeline)
ScoresOfWrong(list) ==
    [u \in {list[i].user : i \in 1..Len(list)} |-> list[1].score]

\* scores := map[user]score built from a list of records or entries.
ScoresOf(list) ==
    [u \in {list[i].user : i \in 1..Len(list)} |->
        (CHOOSE r \in {list[i] : i \in 1..Len(list)} : r.user = u).score]

Without(f, m) == [v \in (DOMAIN f) \ {m} |-> f[v]]

\* Where a call continues after its BatchSetScores returned: the rebuild
\* with the error, GetRankings with the error logged (cacheSet).  While the
\* pipeline runs loc[p].batch is the scores map it was called with and
\* loc[p].pending the part of it whose ZADD has not reached the server.
AfterBatch(p, failed) ==
    IF loc[p].op = "RebuildLeaderboard"
    THEN Goto(p, "rb_release",
              [loc[p] EXCEPT !.pending = EmptyZSet, !.batch = EmptyZSet,
                             !.err = IF failed THEN "batch_set_scores" ELSE ""])
    ELSE Finish(p, [loc[p] EXCEPT !.pending = EmptyZSet, !.batch = EmptyZSet,
                                  !.cacheSet = IF failed THEN "failed" ELSE "ok"])

BatchZAddWrong(p) ==
    /\ pc[p] = "batch"
    /\ \E userID \in DOMAIN loc[p].pending :
          /\ zset' = ZAdd(zset, userID, Float64(1))
          /\ Goto(p, "batch", [loc[p] EXCEPT !.pending = Without(@, userID)])
    /\ UNCHANGED <<history, purged, clock, zttl, lock, lbDoc, cfgCache>>

\* One queued ZADD of the pipeline reaches the server.  Pipeline() queues
\* plain commands (no MULTI/EXEC); the map is ranged over in any order.
BatchZAdd(p) ==
    /\ pc[p] = "batch"
    /\ \E userID \in DOMAIN loc[p].pending :
          /\ zset' = ZAdd(zset, userID, Float64(loc[p].pending[userID]))
          /\ Goto(p, "batch", [loc[p] EXCEPT !.pending = Without(@, userID)])
    /\ UNCHANGED <<history, purged, clock, zttl, lock, lbDoc, cfgCache>>

\* The queued EXPIRE 24h reaches the server and Exec returns without error.
BatchExpire(p) ==
    /\ pc[p] = "batch"
    /\ DOMAIN loc[p].pending = {}
    /\ zttl' = TRUE
    /\ AfterBatch(p, FALSE)
    /\ UNCHANGED <<history, purged, clock, zset, lock, lbDoc, cfgCache>>

\* Exec returns an error: the commands not yet sent are lost.
BatchFail(p) ==
    /\ pc[p] = "batch"
    /\ AfterBatch(p, TRUE)
    /\ UNCHANGED stores

\* --------------------------------------- leaderboardService.GetRankings
\* Limits and offsets the handler passes on (limit >= 1, offset >= 0).
Limits == 1..NumUsers
Offsets == {0, 1}

RankingsStartWrong(p, limit, offset, O) ==
    /\ pc[p] = "idle"
    /\ \E cacheHit, mongoOK, setOK \in O :
          GetLeaderboard(p, "GetRankings", "rk_cache",
                         cacheHit, mongoOK, setOK,
                         [IdleLoc EXCEPT !.limit = limit, !.offset = offset])
    /\ UNCHANGED <<history, purged, clock, zset, zttl, lock, lbDoc>>

RankingsStart(p, limit, offset, O) ==
    /\ pc[p] = "idle"
    /\ \E cacheHit, mongoOK, setOK \in O :
          GetLeaderboard(p, "GetRankings",
                         IF offset = 0 THEN "rk_cache" ELSE "rk_topscores",
                         cacheHit, mongoOK, setOK,
                         [IdleLoc EXCEPT !.limit = limit, !.offset = offset])
    /\ UNCHANGED <<history, purged, clock, zset, zttl, lock, lbDoc>>

\* offset == 0: redisCache.GetTopRankings; served from it when it returns
\* no error and at least one entry.
RankingsFromCache(p, O) ==
    /\ pc[p] = "rk_cache"
    /\ \E ok \in O :
          LET rankings == GetTopRankings(zset, loc[p].limit, loc[p].sortOrder)
          IN  IF ok /\ Len(rankings) > 0
              THEN Finish(p, [loc[p] EXCEPT !.rankings = rankings,
                                            !.source = "cache"])
              ELSE Goto(p, "rk_topscores", loc[p])
    /\ UNCHANGED stores

\* The loop over records: skip the first `offset`, stop at `limit` entries
\* (the length test follows the append, so at least one entry is taken).
RankingEntries(records, limit, offset) ==
    LET take == IF limit >= 1 THEN limit ELSE 1
        last == IF Len(records) < offset + take THEN Len(records)
                ELSE offset + take
    IN  [k \in 1..(IF last > offset THEN last - offset ELSE 0) |->
            [user |-> records[offset + k].user,
             score |-> records[offset + k].score,
             rank |-> offset + k]]

RankingsTopScoresWrong(p, O) ==
    /\ pc[p] = "rk_topscores"
    /\ \E ok \in O, keyOrder \in SortKeyOrders :
          LET records == GetTopScores(Docs, loc[p].limit + loc[p].offset,
                                      loc[p].sortOrder, keyOrder)
              rankings == RankingEntries(records, loc[p].limit, loc[p].offset)
          IN  IF ~ok
              THEN Finish(p, [loc[p] EXCEPT !.err = "get_top_scores"])
              ELSE Finish(p, [loc[p] EXCEPT !.rankings = rankings,
                                            !.source = "history"])
    /\ UNCHANGED stores

\* mongoRepo.GetTopScores(limit+offset), conversion, and for offset 0 with
\* entries the write-back through BatchSetScores.
RankingsTopScores(p, O) ==
    /\ pc[p] = "rk_topscores"
    /\ \E ok \in O, keyOrder \in SortKeyOrders :
          LET records == GetTopScores(Docs, loc[p].limit + loc[p].offset,
                                      loc[p].sortOrder, keyOrder)
              rankings == RankingEntries(records, loc[p].limit, loc[p].offset)
          IN  IF ~ok
              THEN Finish(p, [loc[p] EXCEPT !.err = "get_top_scores"])
              ELSE IF loc[p].offset = 0 /\ Len(rankings) > 0
              THEN Goto(p, "batch", [loc[p] EXCEPT !.rankings = rankings,
                                                   !.source = "history",
                                                   !.pending = ScoresOf(rankings),
                                                   !.batch = ScoresOf(rankings)])
              ELSE Finish(p, [loc[p] EXCEPT !.rankings = rankings,
                                            !.source = "history"])
    /\ UNCHANGED stores

\* --------------------------------- leaderboardService.BatchSubmitScores
\* Requests the handler passes on: 1..MaxBatch entries, each with a user and
\* a score >= 0.
BatchRequests ==
    UNION {[1..n -> [user : Users, score : ScoreInputs]] : n \in 1..MaxBatch}

BatchSubmitStart(p, entries) ==
    /\ pc[p] = "idle"
    /\ Goto(p, "bs_next", [IdleLoc EXCEPT !.op = "BatchSubmitScores",
                                          !.request = entries,
                                          !.queue = entries])
    /\ UNCHANGED stores

BatchSubmitNextWrong(p, O) ==
    /\ pc[p] = "bs_next"
    /\ IF loc[p].queue = << >>
       THEN /\ Finish(p, loc[p])
            /\ UNCHANGED cfgCache
       ELSE \E cacheHit, mongoOK, setOK \in O :
               GetLeaderboard(p, "BatchSubmitScores", "sub_getuserscore",
                              cacheHit, mongoOK, setOK,
                              [loc[p] EXCEPT
                                  !.user = loc[p].queue[Len(loc[p].queue)].user,
                                  !.score = loc[p].queue[Len(loc[p].queue)].score,
                                  !.queue = SubSeq(@, 1, Len(@) - 1),
                                  !.previousScore = 0, !.previousRank = 0,
                                  !.at = 0, !.rank = 0, !.rankChange = 0,
                                  !.cacheSet = "", !.before = EmptyZSet])
    /\ UNCHANGED <<history, purged, clock, zset, zttl, lock, lbDoc>>

\* for _, scoreReq := range req.Scores: SubmitScore of the next entry, whose
\* first step is GetLeaderboard; after the last entry the response returns.
BatchSubmitNext(p, O) ==
    /\ pc[p] = "bs_next"
    /\ IF loc[p].queue = << >>
       THEN /\ Finish(p, loc[p])
            /\ UNCHANGED cfgCache
       ELSE \E cacheHit, mongoOK, setOK \in O :
               GetLeaderboard(p, "BatchSubmitScores", "sub_getuserscore",
                              cacheHit, mongoOK, setOK,
                              [loc[p] EXCEPT
                                  !.user = Head(loc[p].queue).user,
                                  !.score = Head(loc[p].queue).score,
                                  !.queue = Tail(@),
                                  !.previousScore = 0, !.previousRank = 0,
                                  !.at = 0, !.rank = 0, !.rankChange = 0,
                                  !.cacheSet = "", !.before = EmptyZSet])
    /\ UNCHANGED <<history, purged, clock, zset, zttl, lock, lbDoc>>

\* ------------------------------------------- ScoreHandler.BatchSubmit
\* Bodies the endpoint receives: MaxSubmissions entries, each with a user
\* and a score that may be negative.
HandlerBatchRequests ==
    [1..MaxSubmissions -> [user : Users, score : {-1, 1, 2}]]

\* The handler answers 400 for an empty list, for more than 1000 entries and
\* for a list with a negative score anywhere, without calling the service;
\* any other list goes to BatchSubmitScores.
HandlerBatchSubmit(p, entries) ==
    /\ pc[p] = "idle"
    /\ IF \/ Len(entries) = 0
          \/ Len(entries) > 1000
          \/ \E i \in 1..Len(entries) : entries[i].score < 0
       THEN /\ Finish(p, [IdleLoc EXCEPT !.op = "BatchSubmit",
                                         !.request = entries,
                                         !.err = "bad_request"])
            /\ UNCHANGED stores
       ELSE BatchSubmitStart(p, entries)

\* --------------------------------------- leaderboardService.GetUserRank
UserRankStart(p, userID, O) ==
    /\ pc[p] = "idle"
    /\ \E cacheHit, mongoOK, setOK \in O :
          GetLeaderboard(p, "GetUserRank", "ur_score", cacheHit, mongoOK, setOK,
                         [IdleLoc EXCEPT !.user = userID])
    /\ UNCHANGED <<history, purged, clock, zset, zttl, lock, lbDoc>>

\* score, err := redisCache.GetScore(...); err != nil || score == 0 turns to
\* the history store.
UserRankScore(p, O) ==
    /\ pc[p] = "ur_score"
    /\ \E ok \in O :
          LET score == GetScore(zset, loc[p].user)
          IN  IF ~ok \/ score = 0
              THEN Goto(p, "ur_dbscore", loc[p])
              ELSE Goto(p, "ur_rank", [loc[p] EXCEPT !.score = score])
    /\ UNCHANGED stores

\* record, err := mongoRepo.GetUserScore(...): an error and no record return.
UserRankDbScore(p, O) ==
    /\ pc[p] = "ur_dbscore"
    /\ \E ok \in O :
          LET record == GetUserScore(Docs, loc[p].user)
          IN  IF ~ok
              THEN Finish(p, [loc[p] EXCEPT !.err = "get_user_score"])
              ELSE IF record = NoRecord
              THEN Finish(p, [loc[p] EXCEPT !.err = "no_score_record"])
              ELSE Goto(p, "ur_rank", [loc[p] EXCEPT !.score = record.score])
    /\ UNCHANGED stores

\* rank, err := redisCache.GetRank(...); err != nil || rank == 0 turns to
\* the history store.
UserRankRank(p, O) ==
    /\ pc[p] = "ur_rank"
    /\ \E ok \in O :
          LET rank == GetRank(zset, loc[p].user, loc[p].sortOrder)
          IN  IF ~ok \/ rank = 0
              THEN Goto(p, "ur_dbrank", loc[p])
              ELSE Goto(p, "ur_size", [loc[p] EXCEPT !.rank = rank,
                                                     !.source = "cache"])
    /\ UNCHANGED stores

\* rank, err = mongoRepo.GetUserRank(...): an error returns.
UserRankDbRank(p, O) ==
    /\ pc[p] = "ur_dbrank"
    /\ \E ok \in O :
          LET rank == RepoGetUserRank(Docs, loc[p].user, loc[p].sortOrder)
          IN  IF ~ok \/ rank = 0
              THEN Finish(p, [loc[p] EXCEPT !.err = "get_user_rank"])
              ELSE Goto(p, "ur_size", [loc[p] EXCEPT !.rank = rank,
                                                     !.source = "history"])
    /\ UNCHANGED stores

\* totalUsers, err := redisCache.GetLeaderboardSize(...): 0 on error.
UserRankSize(p, O) ==
    /\ pc[p] = "ur_size"
    /\ \E ok \in O :
          Finish(p, [loc[p] EXCEPT
                        !.totalUsers = IF ok THEN GetLeaderboardSize(zset) ELSE 0])
    /\ UNCHANGED stores

\* ------------------------------ leaderboardService.GetRankingsAroundUser
\* Counts the handler passes on (1..50).
Counts == 1..NumUsers

AroundStart(p, userID, count, O) ==
    /\ pc[p] = "idle"
    /\ \E cacheHit, mongoOK, setOK \in O :
          GetLeaderboard(p, "GetRankingsAroundUser", "ar_rank",
                         cacheHit, mongoOK, setOK,
                         [IdleLoc EXCEPT !.user = userID, !.limit = count])
    /\ UNCHANGED <<history, purged, clock, zset, zttl, lock, lbDoc>>

AroundRankWrong(p, O) ==
    /\ pc[p] = "ar_rank"
    /\ \E ok \in O :
          LET userRank == GetRank(zset, loc[p].user, loc[p].sortOrder)
          IN  IF ~ok
              THEN Finish(p, [loc[p] EXCEPT !.err = "get_rank"])
              ELSE Goto(p, "ar_range", [loc[p] EXCEPT !.rank = userRank])
    /\ UNCHANGED stores

\* cache GetRankingsAroundUser, first store call: the user's rank; an error
\* and rank 0 ("user not in the leaderboard") return.
AroundRank(p, O) ==
    /\ pc[p] = "ar_rank"
    /\ \E ok \in O :
          LET userRank == GetRank(zset, loc[p].user, loc[p].sortOrder)
          IN  IF ~ok
              THEN Finish(p, [loc[p] EXCEPT !.err = "get_rank"])
              ELSE IF userRank = 0
              THEN Finish(p, [loc[p] EXCEPT !.err = "user_not_in_leaderboard"])
              ELSE Goto(p, "ar_range", [loc[p] EXCEPT !.rank = userRank])
    /\ UNCHANGED stores

\* cache GetRankingsAroundUser, second store call: the index range
\* [userRank - half - 1, userRank + half - 1], start raised to 0.
AroundRange(p, O) ==
    /\ pc[p] = "ar_range"
    /\ \E ok \in O :
          IF ok
          THEN Finish(p, [loc[p] EXCEPT
                   !.rankings = RankingsAround(zset, loc[p].rank, loc[p].limit,
                                               loc[p].sortOrder),
                   !.source = "cache"])
          ELSE Finish(p, [loc[p] EXCEPT !.err = "get_rankings_around_user"])
    /\ UNCHANGED stores

\* ---------------------------------- leaderboardService.DeleteLeaderboard
\* mongoRepo.DeleteLeaderboard: UpdateOne {leaderboard_id} $set is_active
\* false; the document exists, so it is matched.  An error returns.
DeleteSoft(p, O) ==
    /\ pc[p] = "idle"
    /\ \E ok \in O :
          IF ok
          THEN /\ lbDoc' = [lbDoc EXCEPT !.isActive = FALSE]
               /\ Goto(p, "del_clear", [IdleLoc EXCEPT !.op = "DeleteLeaderboard"])
          ELSE /\ Finish(p, [IdleLoc EXCEPT !.op = "DeleteLeaderboard",
                                            !.err = "delete_leaderboard"])
               /\ UNCHANGED lbDoc
    /\ UNCHANGED <<history, purged, clock, zset, zttl, lock, cfgCache>>

\* DeleteLeaderboard of an id that has no document: UpdateOne matches
\* nothing (MatchedCount == 0), which is returned as an error.
DeleteUnknown(p) ==
    /\ pc[p] = "idle"
    /\ Finish(p, [IdleLoc EXCEPT !.op = "DeleteLeaderboard",
                                 !.err = "not_found"])
    /\ UNCHANGED stores

DeleteClearWrong(p, O) ==
    /\ pc[p] = "del_clear"
    /\ \E ok \in O :
          /\ cfgCache' = IF ok THEN NoConfig ELSE cfgCache
          /\ Finish(p, [loc[p] EXCEPT !.source = IF ok THEN "cleared"
                                                 ELSE "clear_failed"])
    /\ UNCHANGED <<history, purged, clock, zset, zttl, lock, lbDoc>>

\* redisCache.ClearLeaderboard: DEL of the sorted set key; an error is logged.
DeleteClear(p, O) ==
    /\ pc[p] = "del_clear"
    /\ \E ok \in O :
          /\ zset' = IF ok THEN EmptyZSet ELSE zset
          /\ zttl' = IF ok THEN FALSE ELSE zttl
          /\ Finish(p, [loc[p] EXCEPT !.source = IF ok THEN "cleared"
                                                 ELSE "clear_failed"])
    /\ UNCHANGED <<history, purged, clock, lock, lbDoc, cfgCache>>

\* -------------------------------- leaderboardService.RebuildLeaderboard
RebuildStart(p, O) ==
    /\ pc[p] = "idle"
    /\ \E cacheHit, mongoOK, setOK \in O :
          GetLeaderboard(p, "RebuildLeaderboard", "rb_acquire",
                         cacheHit, mongoOK, setOK, IdleLoc)
    /\ UNCHANGED <<history, purged, clock, zset, zttl, lock, lbDoc>>

AcquireLockWrong(held) == TRUE

\* redis AcquireLock: SETNX ranking_lock:<id> "locked" with a ttl; granted
\* exactly when the key did not exist.
AcquireLock(held) == ~held

RebuildAcquireLockWrong(p, O) ==
    /\ pc[p] = "rb_acquire"
    /\ \E ok \in O :
          IF ~ok
          THEN /\ Finish(p, [loc[p] EXCEPT !.err = "acquire_lock"])
               /\ UNCHANGED lock
          ELSE IF AcquireLock(lock)
          THEN /\ lock' = TRUE
               /\ Goto(p, "rb_clear", [loc[p] EXCEPT !.lease = TRUE])
          ELSE /\ Goto(p, "rb_release",
                       [loc[p] EXCEPT !.err = "rebuild_in_progress"])
               /\ UNCHANGED lock
    /\ UNCHANGED <<history, purged, clock, zset, zttl, lbDoc, cfgCache>>

\* lockAcquired, err := AcquireLock(5 min): an error and a refusal return;
\* after a grant the release is deferred.  loc[p].lease is TRUE as long as
\* the key this SETNX created exists.
RebuildAcquireLock(p, O) ==
    /\ pc[p] = "rb_acquire"
    /\ \E ok \in O :
          IF ~ok
          THEN /\ Finish(p, [loc[p] EXCEPT !.err = "acquire_lock"])
               /\ UNCHANGED lock
          ELSE IF AcquireLock(lock)
          THEN /\ lock' = TRUE
               /\ Goto(p, "rb_clear", [loc[p] EXCEPT !.lease = TRUE])
          ELSE /\ Finish(p, [loc[p] EXCEPT !.err = "rebuild_in_progress"])
               /\ UNCHANGED lock
    /\ UNCHANGED <<history, purged, clock, zset, zttl, lbDoc, cfgCache>>

RebuildClearWrong(p, O) ==
    /\ pc[p] = "rb_clear"
    /\ \E ok \in O :
          /\ zset' = IF ok THEN EmptyZSet ELSE zset
          /\ zttl' = IF ok THEN FALSE ELSE zttl
          /\ Goto(p, "rb_topscores", loc[p])
    /\ UNCHANGED <<history, purged, clock, lock, lbDoc, cfgCache>>

\* redisCache.ClearLeaderboard: DEL of the sorted set key.
RebuildClear(p, O) ==
    /\ pc[p] = "rb_clear"
    /\ \E ok \in O :
          IF ok
          THEN /\ zset' = EmptyZSet
               /\ zttl' = FALSE
               /\ Goto(p, "rb_topscores", loc[p])
          ELSE /\ Goto(p, "rb_release", [loc[p] EXCEPT !.err = "clear_leaderboard"])
               /\ UNCHANGED <<zset, zttl>>
    /\ UNCHANGED <<history, purged, clock, lock, lbDoc, cfgCache>>

\* mongoRepo.GetTopScores(MaxEntries); the scores map; BatchSetScores only
\* when the map is not empty.
RebuildTopScores(p, O) ==
    /\ pc[p] = "rb_topscores"
    /\ \E ok \in O, keyOrder \in SortKeyOrders :
          LET records == GetTopScores(Docs, loc[p].maxEntries,
                                      loc[p].sortOrder, keyOrder)
          IN  IF ~ok
              THEN Goto(p, "rb_release", [loc[p] EXCEPT !.err = "get_top_scores"])
              ELSE IF Len(records) > 0
              THEN Goto(p, "batch", [loc[p] EXCEPT !.pending = ScoresOf(records),
                                                   !.batch = ScoresOf(records)])
              ELSE Goto(p, "rb_release", loc[p])
    /\ UNCHANGED stores

ReleaseLockWrong(held) == held

\* redis ReleaseLock: DEL ranking_lock:<id>, whoever set it.
ReleaseLock(held) == FALSE

\* The key of the lock is gone: no call's lease is left.
Unleased(l) == [q \in Procs |-> [l[q] EXCEPT !.lease = FALSE]]

\* defer redisCache.ReleaseLock(...): runs on every return after the grant;
\* its error is discarded.  loc[p].cached records the sorted set as the call
\* leaves it.
RebuildReleaseLock(p, O) ==
    /\ pc[p] = "rb_release"
    /\ \E ok \in O :
          /\ lock' = IF ok THEN ReleaseLock(lock) ELSE lock
          /\ pc' = [pc EXCEPT ![p] = "done"]
          /\ loc' = [(IF ok /\ ~ReleaseLock(lock) THEN Unleased(loc) ELSE loc)
                        EXCEPT ![p].source = IF ok THEN "released"
                                             ELSE "release_failed",
                               ![p].cached = zset]
    /\ UNCHANGED <<history, purged, clock, zset, zttl, lbDoc, cfgCache>>

\* ------------------------------------------------------------ environment
\* The caller has taken the response: the process is free for a new call.
Return(p) ==
    /\ pc[p] = "done"
    /\ Goto(p, "idle", IdleLoc)
    /\ UNCHANGED stores

\* A call in progress has set the sorted set's expiry itself: the 24 hours
\* cannot have run out before that call returns.
TTLJustSet ==
    \E p \in Procs :
        \/ pc[p] = "sub_newrank" /\ loc[p].cacheSet = "ok"
        \/ pc[p] = "rb_release" /\ loc[p].err = ""

\* The sorted set key reaches its expiry (24h after the last EXPIRE).
CacheExpire ==
    /\ zttl
    /\ ~TTLJustSet
    /\ zset' = EmptyZSet
    /\ zttl' = FALSE
    /\ UNCHANGED <<history, purged, clock, lock, lbDoc, cfgCache, pc, loc>>

LockExpireWrong ==
    /\ lock
    /\ UNCHANGED vars

\* The lock key reaches its ttl (5 minutes after SETNX).
LockExpire ==
    /\ lock
    /\ lock' = FALSE
    /\ loc' = Unleased(loc)
    /\ UNCHANGED <<history, purged, clock, zset, zttl, lbDoc, cfgCache, pc>>

\* The configuration key reaches its expiry (24h after SetLeaderboardConfig).
ConfigExpire ==
    /\ cfgCache # NoConfig
    /\ cfgCache' = NoConfig
    /\ UNCHANGED <<history, purged, clock, zset, zttl, lock, lbDoc, pc, loc>>

\* The oldest document was inserted by a call still in progress: its 30 days
\* cannot have run out.
DocJustInserted ==
    \E p \in Procs :
        /\ pc[p] \in {"sub_setscore", "sub_newrank"}
        /\ loc[p].at = history[purged + 1].at

\* The TTL index on created_at (30 days) removes the oldest document.
HistoryExpire ==
    /\ purged < Len(history)
    /\ ~DocJustInserted
    /\ purged' = purged + 1
    /\ UNCHANGED <<history, clock, zset, zttl, lock, lbDoc, cfgCache, pc, loc>>

\* No call is in progress and no response is waiting to be taken.
Quiet == \A p \in Procs : pc[p] = "idle"

\* ---------------------------------------------------------- specifications
\* The steps of a call in progress of process p.
SubmitSteps(p, O) ==
    \/ SubmitGetUserScore(p, O)
    \/ SubmitPreviousRank(p, O)
    \/ SubmitCreateRecord(p, O)
    \/ SubmitSetScore(p, O)
    \/ SubmitNewRank(p, O)

RankingsSteps(p, O) == RankingsFromCache(p, O) \/ RankingsTopScores(p, O)

BatchSteps(p) == BatchZAdd(p) \/ BatchExpire(p)

RebuildSteps(p, O) ==
    \/ RebuildAcquireLock(p, O)
    \/ RebuildClear(p, O)
    \/ RebuildTopScores(p, O)
    \/ RebuildReleaseLock(p, O)

\* A new call of process p; at most MaxRecords submissions in a run.
Start(p, O) ==
    \/ \E userID \in Users, score \in ScoreInputs :
          clock + SubmitsInFlight <= MaxRecords /\ SubmitStart(p, userID, score, O)
    \/ \E limit \in Limits, offset \in Offsets : RankingsStart(p, limit, offset, O)
    \/ RebuildStart(p, O)

Call(p, O) ==
    Start(p, O) \/ SubmitSteps(p, O) \/ RankingsSteps(p, O) \/ BatchSteps(p)
        \/ RebuildSteps(p, O) \/ BatchFail(p) \/ Return(p)

\* Spec: the calls of the service one after the other (no two overlap), every
\* store call free to fail; keys and documents expire between two calls.
Expiry ==
    Quiet /\ (CacheExpire \/ LockExpire \/ ConfigExpire \/ HistoryExpire)

Next == Call(1, BOOLEAN) \/ Expiry

Spec == Init /\ [][Next]_vars

\* OpsSpec: every operation of the service, one call after the other; of the
\* store calls only the pipeline's Exec fails; keys and documents expire
\* between two calls.
OpsStart(p, O) ==
    \/ Start(p, O)
    \/ \E entries \in BatchRequests :
          /\ clock + SubmitsInFlight + Len(entries) <= MaxRecords + 1
          /\ BatchSubmitStart(p, entries)
    \/ \E userID \in Users : UserRankStart(p, userID, O)
    \/ \E userID \in Users, count \in Counts : AroundStart(p, userID, count, O)
    \/ LeaderboardGet(p, O)
    \/ DeleteSoft(p, O)

UserRankSteps(p, O) ==
    \/ UserRankScore(p, O)
    \/ UserRankDbScore(p, O)
    \/ UserRankRank(p, O)
    \/ UserRankDbRank(p, O)
    \/ UserRankSize(p, O)

AroundSteps(p, O) == AroundRank(p, O) \/ AroundRange(p, O)

OpsCall(p, O) ==
    \/ OpsStart(p, O)
    \/ SubmitSteps(p, O)
    \/ BatchSubmitNext(p, O)
    \/ RankingsSteps(p, O)
    \/ UserRankSteps(p, O)
    \/ AroundSteps(p, O)
    \/ DeleteClear(p, O)
    \/ RebuildSteps(p, O)
    \/ BatchSteps(p) \/ BatchFail(p)
    \/ Return(p)

OpsNext == OpsCall(1, {TRUE}) \/ Expiry

OpsSpec == Init /\ [][OpsNext]_vars

\* SubmitSpec: up to MaxSubmissions submissions one after the other, every
\* store call free to fail, keys and documents expiring between two calls.
SubmitNext ==
    \/ \E userID \in Users, score \in ScoreInputs :
          clock + SubmitsInFlight <= MaxSubmissions
              /\ SubmitStart(1, userID, score, BOOLEAN)
    \/ SubmitSteps(1, BOOLEAN)
    \/ Return(1)
    \/ Expiry

SubmitSpec == Init /\ [][SubmitNext]_vars

\* RebuildSpec: every process may run RebuildLeaderboard, each of its store
\* calls free to fail; process 1 may also submit scores; the calls overlap
\* freely.  The lock's lease does not run out (rebuilds far shorter than the
\* 5 minute ttl).
SubmitCall(p, O) ==
    \/ \E userID \in Users, score \in ScoreInputs :
          clock + SubmitsInFlight <= MaxRecords /\ SubmitStart(p, userID, score, O)
    \/ SubmitSteps(p, O)
    \/ Return(p)

RebuildCall(p, O) ==
    RebuildStart(p, O) \/ RebuildSteps(p, O) \/ BatchSteps(p) \/ Return(p)

RebuildNext ==
    \/ SubmitCall(1, {TRUE})
    \/ \E p \in Procs : RebuildCall(p, BOOLEAN) \/ BatchFail(p)

RebuildSpec == Init /\ [][RebuildNext]_vars

\* TwiceSpec: process 1 submits scores and then rebuilds; once that rebuild
\* has returned without error process 2 rebuilds, nothing else running and
\* nothing expiring.  All store calls succeed.
TwiceNext ==
    \/ /\ pc[2] = "idle"
       /\ ~Returned(1, "RebuildLeaderboard")
       /\ SubmitCall(1, {TRUE})
    \/ /\ pc[2] = "idle"
       /\ RebuildStart(1, {TRUE}) \/ RebuildSteps(1, {TRUE}) \/ BatchSteps(1)
    \/ /\ Succeeded(1, "RebuildLeaderboard")
       /\ RebuildStart(2, {TRUE}) \/ RebuildSteps(2, {TRUE}) \/ BatchSteps(2)

TwiceSpec == Init /\ [][TwiceNext]_vars

\* RaceSpec: every process submits scores, the submissions overlapping
\* freely, MaxSubmissions of them in a run; all store calls succeed and
\* nothing expires.
RaceNext ==
    \E p \in Procs :
        \/ \E userID \in Users, score \in ScoreInputs :
              clock + SubmitsInFlight <= MaxSubmissions
                  /\ SubmitStart(p, userID, score, {TRUE})
        \/ SubmitSteps(p, {TRUE})
        \/ Return(p)

RaceSpec == Init /\ [][RaceNext]_vars

\* CacheUpSpec: up to MaxSubmissions submissions one after the other with a
\* working cache: the calls of the history store are free to fail, those of
\* the cache and of the registry succeed, and nothing expires.  The scores
\* are those below the largest exactly convertible magnitude.
ExactScores == 1..(Float64Exact - 1)

CacheUpNext ==
    \/ \E userID \in Users, score \in ExactScores :
          clock + SubmitsInFlight <= MaxSubmissions
              /\ SubmitStart(1, userID, score, {TRUE})
    \/ SubmitGetUserScore(1, BOOLEAN)
    \/ SubmitPreviousRank(1, {TRUE})
    \/ SubmitCreateRecord(1, BOOLEAN)
    \/ SubmitSetScore(1, {TRUE})
    \/ SubmitNewRank(1, {TRUE})
    \/ Return(1)

CacheUpSpec == Init /\ [][CacheUpNext]_vars

\* BatchSubmitSpec: batch submissions one after the other, MaxRecords
\* entries in a run, every store call free to fail, nothing expiring.
BatchSubmitCall ==
    \/ \E entries \in BatchRequests :
          /\ clock + SubmitsInFlight + Len(entries) <= MaxRecords + 1
          /\ BatchSubmitStart(1, entries)
    \/ BatchSubmitNext(1, BOOLEAN)
    \/ SubmitSteps(1, BOOLEAN)
    \/ Return(1)

BatchSubmitSpec == Init /\ [][BatchSubmitCall]_vars

\* HandlerSpec: requests to the batch endpoint one after the other, all
\* store calls succeeding, nothing expiring.
HandlerNext ==
    \/ \E entries \in HandlerBatchRequests :
          /\ clock + SubmitsInFlight + Len(entries) <= MaxSubmissions + 1
          /\ HandlerBatchSubmit(1, entries)
    \/ BatchSubmitNext(1, {TRUE})
    \/ SubmitSteps(1, {TRUE})
    \/ Return(1)

HandlerSpec == Init /\ [][HandlerNext]_vars

\* LeaseSpec: every process may run RebuildLeaderboard while process 1 may
\* also submit scores; all store calls succeed and the lock's lease may run
\* out at any time (a rebuild may outlast the 5 minute ttl).
LeaseNext ==
    \/ SubmitCall(1, {TRUE})
    \/ \E p \in Procs : RebuildCall(p, {TRUE})
    \/ LockExpire

LeaseSpec == Init /\ [][LeaseNext]_vars

\* DeleteSpec: process 2 deletes - the leaderboard or an id without
\* document - its store calls free to fail, while process 1 submits scores.
DeleteNext ==
    \/ SubmitCall(1, {TRUE})
    \/ DeleteSoft(2, BOOLEAN)
    \/ DeleteUnknown(2)
    \/ DeleteClear(2, BOOLEAN)
    \/ Return(2)

DeleteSpec == Init /\ [][DeleteNext]_vars

\* RegistrySpec: the leaderboard has no document at first; it is created,
\* read and updated, one call after the other, every store call free to
\* fail, the configuration key expiring between two calls.
RegistryInit ==
    /\ history = << >>
    /\ purged = 0
    /\ clock = 1
    /\ zset = EmptyZSet
    /\ zttl = FALSE
    /\ lock = FALSE
    /\ lbDoc = NoConfig
    /\ cfgCache = NoConfig
    /\ pc = [p \in Procs |-> "idle"]
    /\ loc = [p \in Procs |-> IdleLoc]

RegistryNext ==
    \/ \E sortOrder \in SortOrders, maxEntries \in MaxEntriesValues :
          \/ CreateInsert(1, sortOrder, maxEntries, BOOLEAN)
          \/ UpdateDocument(1, sortOrder, maxEntries, BOOLEAN)
    \/ CreateCache(1, BOOLEAN)
    \/ LeaderboardGet(1, BOOLEAN)
    \/ UpdateStart(1, BOOLEAN)
    \/ UpdateCache(1, BOOLEAN)
    \/ Return(1)
    \/ Quiet /\ ConfigExpire

RegistrySpec == RegistryInit /\ [][RegistryNext]_vars

\* AroundSpec: GetRankingsAroundUser on a warm cache.  Users 1..n have each
\* submitted one exactly convertible score, in this order, and the sorted set
\* holds them all; then the call runs alone, every store call free to fail.
AroundMembers == 3
AroundCounts == 1..4

AroundInit ==
    \E n \in 0..AroundMembers :
        \E s \in [1..n -> ExactScores] :
            /\ history = [i \in 1..n |->
                            [user |-> i, score |-> s[i], prev |-> 0, at |-> i]]
            /\ purged = 0
            /\ clock = n + 1
            /\ zset = [u \in 1..n |-> Float64(s[u])]
            /\ zttl = (n > 0)
            /\ lock = FALSE
            /\ lbDoc \in [sortOrder : SortOrders, maxEntries : MaxEntriesValues,
                          isActive : {TRUE}]
            /\ cfgCache = NoConfig
            /\ pc = [p \in Procs |-> "idle"]
            /\ loc = [p \in Procs |-> IdleLoc]

AroundNext ==
    \/ \E userID \in 1..AroundMembers, count \in AroundCounts :
          AroundStart(1, userID, count, BOOLEAN)
    \/ AroundSteps(1, BOOLEAN)
    \/ Return(1)

AroundSpec == AroundInit /\ [][AroundNext]_vars

\* ColdSpec: process 2 asks for the rankings around a user while process 1
\* submits scores and rebuilds and the sorted set may expire; all store calls
\* succeed.
AroundCall(p, O) ==
    \/ \E userID \in Users, count \in Counts : AroundStart(p, userID, count, O)
    \/ AroundSteps(p, O)
    \/ Return(p)

ColdNext ==
    \/ SubmitCall(1, {TRUE})
    \/ RebuildCall(1, {TRUE})
    \/ AroundCall(2, {TRUE})
    \/ CacheExpire

ColdSpec == Init /\ [][ColdNext]_vars

\* The process running RebuildLeaderboard dies after the grant: nothing of
\* the call runs any more, the deferred release included.
Crash(p) ==
    /\ loc[p].op = "RebuildLeaderboard"
    /\ pc[p] \in {"rb_clear", "rb_topscores", "batch", "rb_release"}
    /\ pc' = [pc EXCEPT ![p] = "crashed"]
    /\ UNCHANGED <<stores, loc>>

\* LiveSpec: rebuilds of an empty leaderboard.  Process 1 may die while it
\* holds the lock; every other process asks for a rebuild again and again.
\* The DEL of the release may fail, every other store call succeeds.
\* Fairness: a call in progress goes on (the scheduler runs every goroutine),
\* the callers of the other processes keep calling, and the server expires a
\* key whose ttl has run out.
RebuildProgress(p) ==
    \/ RebuildAcquireLock(p, {TRUE})
    \/ RebuildClear(p, {TRUE})
    \/ RebuildTopScores(p, {TRUE})
    \/ RebuildReleaseLock(p, BOOLEAN)

Retrying(p) == RebuildStart(p, {TRUE}) \/ RebuildProgress(p) \/ Return(p)

LiveNext ==
    \/ \E p \in Procs : RebuildStart(p, {TRUE}) \/ RebuildProgress(p) \/ Return(p)
    \/ Crash(1)
    \/ LockExpire

LiveSpec ==
    /\ Init
    /\ [][LiveNext]_vars
    /\ WF_vars(RebuildProgress(1))
    /\ \A p \in Procs \ {1} : WF_vars(Retrying(p))
    /\ WF_vars(LockExpire)

\* HandoverSpec: both processes run RebuildLeaderboard and process 1 also
\* submits scores; all store calls succeed.  Only a rebuild of process 1 may
\* outlast the 5 minute ttl: the lock key expires only while it is the key a
\* SETNX of process 1 created.
SlowLockExpire == loc[1].lease /\ LockExpire

HandoverNext ==
    \/ SubmitCall(1, {TRUE})
    \/ \E p \in Procs : RebuildCall(p, {TRUE})
    \/ SlowLockExpire

HandoverSpec == Init /\ [][HandoverNext]_vars

\* ConfigSpec: process 1 reads the configuration with GetLeaderboard, its
\* three store calls taken one by one, while process 2 updates it; all store
\* calls succeed and the configuration key expires only between calls.

\* redisCache.GetLeaderboardConfig: a hit returns the cached configuration.
GetLeaderboardConfig(p, O) ==
    /\ pc[p] = "idle"
    /\ \E ok \in O :
          IF ok /\ cfgCache # NoConfig
          THEN Finish(p, [IdleLoc EXCEPT !.op = "GetLeaderboard",
                                         !.sortOrder = cfgCache.sortOrder,
                                         !.maxEntries = cfgCache.maxEntries,
                                         !.source = "cache"])
          ELSE Goto(p, "gl_document", [IdleLoc EXCEPT !.op = "GetLeaderboard"])
    /\ UNCHANGED stores

\* mongoRepo.GetLeaderboard: the active document; an error, and no active
\* document, return.
MongoGetLeaderboard(p, O) ==
    /\ pc[p] = "gl_document"
    /\ \E ok \in O :
          IF ok /\ lbDoc.isActive
          THEN Goto(p, "gl_setconfig",
                    [loc[p] EXCEPT !.sortOrder = lbDoc.sortOrder,
                                   !.maxEntries = lbDoc.maxEntries,
                                   !.source = "document"])
          ELSE Finish(p, [loc[p] EXCEPT !.err = "get_leaderboard"])
    /\ UNCHANGED stores

\* redisCache.SetLeaderboardConfig(leaderboard) with the document read: an
\* error is logged; the document read is returned.
SetLeaderboardConfig(p, O) ==
    /\ pc[p] = "gl_setconfig"
    /\ \E ok \in O :
          /\ cfgCache' = IF ok
                          THEN [sortOrder |-> loc[p].sortOrder,
                                maxEntries |-> loc[p].maxEntries,
                                isActive |-> TRUE]
                          ELSE cfgCache
          /\ Finish(p, loc[p])
    /\ UNCHANGED <<history, purged, clock, zset, zttl, lock, lbDoc>>

ConfigNext ==
    \/ GetLeaderboardConfig(1, {TRUE})
    \/ MongoGetLeaderboard(1, {TRUE})
    \/ SetLeaderboardConfig(1, {TRUE})
    \/ UpdateStart(2, {TRUE})
    \/ \E sortOrder \in SortOrders, maxEntries \in MaxEntriesValues :
          UpdateDocument(2, sortOrder, maxEntries, {TRUE})
    \/ UpdateCache(2, {TRUE})
    \/ \E p \in Procs : Return(p)
    \/ Quiet /\ ConfigExpire

ConfigSpec == Init /\ [][ConfigNext]_vars

\* OrderSpec: batch submissions one after the other, MaxSubmissions entries
\* in a run, each entry carrying a leaderboard_id of its own (that of the
\* batch or another one); all store calls succeed and nothing expires.
OrderRequests ==
    UNION {[1..n -> [user : Users, score : ScoreInputs,
                     leaderboard : {"batch", "other"}]] : n \in 1..MaxBatch}

OrderNext ==
    \/ \E entries \in OrderRequests :
          /\ clock + SubmitsInFlight + Len(entries) <= MaxSubmissions + 1
          /\ BatchSubmitStart(1, entries)
    \/ BatchSubmitNext(1, {TRUE})
    \/ SubmitSteps(1, {TRUE})
    \/ Return(1)

OrderSpec == Init /\ [][OrderNext]_vars

\* MixSpec: submissions of process 1 overlap with the reads and rebuilds of
\* process 2, while keys and documents expire.
ReadCall(p, O) ==
    \/ \E limit \in Limits, offset \in Offsets : RankingsStart(p, limit, offset, O)
    \/ RankingsSteps(p, O)

MixNext ==
    \/ SubmitCall(1, {TRUE})
    \/ ReadCall(2, {TRUE})
    \/ RebuildCall(2, {TRUE})
    \/ CacheExpire \/ LockExpire \/ HistoryExpire

MixSpec == Init /\ [][MixNext]_vars

\* ------------------------------------------------------------- properties
\* Process p takes a step of its call.
Steps(p) == pc'[p] # pc[p] \/ loc'[p] # loc[p]

UsersWithRecords(h) == {h[i].user : i \in 1..Len(h)}

\* The record process p built is in the log of inserted documents.
Appended(p) ==
    \E i \in 1..Len(history) :
        /\ history[i].user = loc[p].user
        /\ history[i].score = loc[p].score
        /\ history[i].at = loc[p].at

\* Process p holds the grant of the rebuild lock: between the SETNX that
\* granted it and the return of the call.
Rebuilding(p) ==
    /\ loc[p].op = "RebuildLeaderboard"
    /\ pc[p] \in {"rb_clear", "rb_topscores", "batch", "rb_release"}

C2_AtMostOneRebuild ==
    [][/\ Cardinality({p \in Procs : Rebuilding(p)}') <= 1
       /\ \A p \in Procs :
             (/\ pc[p] = "rb_acquire"
              /\ Steps(p)
              /\ \E q \in Procs \ {p} : Rebuilding(q))
             => /\ pc'[p] = "done"
                /\ loc'[p].err \in {"rebuild_in_progress", "acquire_lock"}
                /\ lock' = lock]_vars

\* C2 witness: one call holds the grant while another has been refused.
C2_Witness ==
    \E p, q \in Procs :
        /\ Rebuilding(p)
        /\ pc[p] = "rb_topscores"
        /\ Returned(q, "RebuildLeaderboard")
        /\ loc[q].err = "rebuild_in_progress"

C4_DurabilityGate ==
    [][\A p \in Procs :
          /\ (/\ loc[p].op = "SubmitScore"
              /\ pc[p] = "sub_create"
              /\ Steps(p)
              /\ history' = history)
             => /\ pc'[p] = "done"
                /\ loc'[p].err = "create_score_record"
                /\ zset' = zset
          /\ (loc[p].op = "SubmitScore" /\ Steps(p) /\ zset' # zset)
             => /\ pc[p] = "sub_setscore"
                /\ Appended(p)
          /\ (pc[p] = "idle" /\ loc'[p].op = "SubmitScore") => zset' = zset]_vars

\* C4 witness: a submission has returned the append's error while the cache
\* holds an earlier submission.
C4_Witness ==
    /\ Returned(1, "SubmitScore")
    /\ loc[1].err = "create_score_record"
    /\ ~Appended(1)
    /\ DOMAIN zset # {}

\* C5: once the record is appended the submission succeeds whatever the
\* cache does: a failed SetScore leaves the record in place and the call
\* goes on, and the reported rank is the cache's rank or, when the rank read
\* fails, 0 with rank change 0 - never a rank computed from the history.
C5_CacheFailureNonFatal ==
    [][\A p \in Procs :
          /\ (loc[p].op = "SubmitScore" /\ pc[p] = "sub_setscore" /\ Steps(p))
             => /\ pc'[p] = "sub_newrank"
                /\ loc'[p].err = ""
                /\ history' = history
                /\ Appended(p)
          /\ (loc[p].op = "SubmitScore" /\ pc[p] = "sub_newrank" /\ Steps(p))
             => /\ pc'[p] = "done"
                /\ loc'[p].err = ""
                /\ stores' = stores
                /\ Appended(p)
                /\ \/ loc'[p].rank = GetRank(zset, loc[p].user, loc[p].sortOrder)
                   \/ loc'[p].rank = 0 /\ loc'[p].rankChange = 0]_vars

\* C5 witness: a submission whose SetScore failed has returned without error,
\* its record appended, with rank 0 and rank change 0.
C5_Witness ==
    /\ Succeeded(1, "SubmitScore")
    /\ loc[1].cacheSet = "failed"
    /\ Appended(1)
    /\ loc[1].rank = 0
    /\ loc[1].rankChange = 0

\* C6: a step of a service call leaves every document of the history store
\* in place and unchanged - it appends one document or none; a SubmitScore
\* appends only where it inserts the record it built, and when it has
\* returned without error exactly one inserted document carries its
\* submission time, with its user and score.
C6_AppendOnlyHistory ==
    [][\A p \in Procs :
          Steps(p) =>
             /\ purged' = purged
             /\ \/ history' = history
                \/ /\ Len(history') = Len(history) + 1
                   /\ SubSeq(history', 1, Len(history)) = history
             /\ (loc[p].op = "SubmitScore" /\ history' # history)
                => /\ pc[p] = "sub_create"
                   /\ history' = Append(history,
                                    [user |-> loc[p].user, score |-> loc[p].score,
                                     prev |-> loc[p].previousScore,
                                     at |-> loc[p].at])
             /\ (pc'[p] = "done" /\ loc'[p].op = "SubmitScore" /\ loc'[p].err = "")
                => /\ Cardinality({i \in 1..Len(history') :
                                      history'[i].at = loc'[p].at}) = 1
                   /\ \E i \in 1..Len(history') :
                         /\ history'[i].at = loc'[p].at
                         /\ history'[i].user = loc'[p].user
                         /\ history'[i].score = loc'[p].score]_vars

\* C6 witness: a user's second submission has returned without error and
\* both of the user's documents are in the history store.
C6_Witness ==
    /\ Succeeded(1, "SubmitScore")
    /\ Len(Docs) = 2
    /\ Docs[1].user = loc[1].user
    /\ Docs[2].user = loc[1].user

\* C7 as stated: every user in the cache has a document in the history store
\* whose score is the user's cached score.
C7_CacheDerivedFromHistory ==
    \A u \in DOMAIN zset :
        \E r \in RecordsOf(Docs, u) : r.score = GetScore(zset, u)

\* C7 amended: every user in the cache is cached with the float64 conversion
\* of the score of a document that was inserted for that user, whether or
\* not the TTL index has removed the document since.
C7_CacheDerivedFromInserted ==
    \A u \in DOMAIN zset :
        \E r \in RecordsOf(history, u) : Float64(r.score) = zset[u]

\* C7 witness: submissions, a rebuild and expiries have left in the cache a
\* user whose documents the TTL index has all removed.
C7_Witness ==
    /\ \E p \in Procs : Succeeded(p, "RebuildLeaderboard")
    /\ \E u \in DOMAIN zset : RecordsOf(Docs, u) = {}

\* C8 as stated: of two RebuildLeaderboard calls that return without error
\* one after the other, with no submission between them, the second leaves
\* the cache with the users and scores (hence ranks) the first left.
C8_RebuildIdempotent ==
    (Succeeded(1, "RebuildLeaderboard") /\ Succeeded(2, "RebuildLeaderboard"))
        => loc[2].cached = loc[1].cached

\* x is strictly better than y under the sort order.
Better(x, y, sortOrder) ==
    IF sortOrder = SortOrderDesc THEN x > y ELSE x < y

\* C9 as stated: of two users in the cache the one with the strictly better
\* score has the strictly smaller GetRank, and of two entries GetRankings
\* returns - from the cache or from the history store - the one with the
\* strictly better score has the strictly smaller rank.
C9_RankMonotonic ==
    /\ \A a, b \in DOMAIN zset, sortOrder \in SortOrders :
          Better(zset[a], zset[b], sortOrder)
              => GetRank(zset, a, sortOrder) < GetRank(zset, b, sortOrder)
    /\ \A p \in Procs :
          Succeeded(p, "GetRankings") =>
              \A i, j \in DOMAIN loc[p].rankings :
                  Better(loc[p].rankings[i].score, loc[p].rankings[j].score,
                         loc[p].sortOrder)
                      => loc[p].rankings[i].rank < loc[p].rankings[j].rank

\* No record of the user of p's call was inserted before the one p built.
FirstSubmission(p) ==
    \A i \in 1..Len(history) :
        history[i].user = loc[p].user => history[i].at >= loc[p].at

\* C10: a successful SubmitScore reports rankChange = previousRank - rank
\* when both ranks are > 0 and 0 otherwise; a user's first submission has
\* previousRank 0 and so reports 0.
C10_RankDeltaFormula ==
    \A p \in Procs :
        Succeeded(p, "SubmitScore") =>
            /\ loc[p].rankChange =
                  IF loc[p].previousRank > 0 /\ loc[p].rank > 0
                  THEN loc[p].previousRank - loc[p].rank
                  ELSE 0
            /\ FirstSubmission(p) =>
                  loc[p].previousRank = 0 /\ loc[p].rankChange = 0

\* C10 witness: a resubmission has moved its user from rank 2 to rank 1 and
\* reports the rank change 1.
C10_Witness ==
    /\ Succeeded(1, "SubmitScore")
    /\ loc[1].previousRank = 2
    /\ loc[1].rank = 1
    /\ loc[1].rankChange = 1

\* The submission of process p raises its user's score on a descending
\* leaderboard: the user had a rank when the previous rank was read, and the
\* submitted score is strictly higher than the user's latest recorded score
\* and than the score the cache held.
RaisesRankedUser(p) ==
    /\ loc[p].op = "SubmitScore"
    /\ loc[p].sortOrder = SortOrderDesc
    /\ loc[p].previousRank > 0
    /\ loc[p].score > loc[p].previousScore
    /\ loc[p].score > GetScore(loc[p].before, loc[p].user)

\* C11 as stated: on a descending leaderboard a successful SubmitScore that
\* raises the score of a user already ranked in the cache never reports a
\* negative rankChange, whatever other submissions run between its read of
\* the previous rank and its read of the new rank.
C11_RankDeltaSign ==
    \A p \in Procs :
        (Succeeded(p, "SubmitScore") /\ RaisesRankedUser(p))
            => loc[p].rankChange >= 0

\* C11 amended: such a SubmitScore never reports a negative rankChange when
\* the cache holds, at the read of the new rank, what it held at the read of
\* the previous rank apart from this submission's own write.
C11_RankDeltaSignUndisturbed ==
    [][\A p \in Procs :
          (/\ pc[p] = "sub_newrank"
           /\ pc'[p] = "done"
           /\ RaisesRankedUser(p)
           /\ zset \in {loc[p].before,
                        ZAdd(loc[p].before, loc[p].user, Float64(loc[p].score))})
          => loc'[p].rankChange >= 0]_vars

\* C11 witness: a submission that raised its user's score, the cache
\* otherwise as the previous rank read found it, has returned with the user
\* moved from rank 2 to rank 1.
C11_Witness ==
    \E p \in Procs :
        /\ Succeeded(p, "SubmitScore")
        /\ RaisesRankedUser(p)
        /\ zset = ZAdd(loc[p].before, loc[p].user, Float64(loc[p].score))
        /\ loc[p].previousRank = 2
        /\ loc[p].rankChange = 1

\* The scenario's submissions (u1, 100), (u2, 200), (u1, 300), the scores
\* scaled to 1, 2, 3, as the records they append.
ScenarioRecords ==
    <<[user |-> 1, score |-> 1, prev |-> 0],
      [user |-> 2, score |-> 2, prev |-> 0],
      [user |-> 1, score |-> 3, prev |-> 1]>>

\* The history holds the records of the scenario's first n submissions and
\* the n-th of them has just returned without error.
ScenarioReturned(n) ==
    /\ Succeeded(1, "SubmitScore")
    /\ loc[1].sortOrder = SortOrderDesc
    /\ Len(history) = n
    /\ \A i \in 1..n :
          /\ history[i].user = ScenarioRecords[i].user
          /\ history[i].score = ScenarioRecords[i].score
          /\ history[i].prev = ScenarioRecords[i].prev

\* The responses of the scenario's three submissions.
C12_Scenario ==
    /\ ScenarioReturned(1)
          => loc[1].rank = 1 /\ loc[1].previousRank = 0 /\ loc[1].rankChange = 0
    /\ ScenarioReturned(2)
          => loc[1].rank = 1 /\ GetRank(zset, 1, SortOrderDesc) = 2
    /\ ScenarioReturned(3)
          => /\ loc[1].previousRank = 2
             /\ loc[1].rank = 1
             /\ loc[1].rankChange = 1
             /\ loc[1].previousScore = 1

\* previousRank is the user's cache rank when the call's record is built
\* (the cache is as it was before the call) and rank is the user's cache
\* rank when the call returns.
C12_RanksAreCacheRanks ==
    [][/\ (pc[1] # "sub_create" /\ pc'[1] = "sub_create")
          => loc'[1].previousRank =
                 GetRank(zset, loc'[1].user, loc'[1].sortOrder)
       /\ (pc[1] = "sub_newrank" /\ pc'[1] = "done")
          => loc'[1].rank = GetRank(zset', loc'[1].user, loc'[1].sortOrder)]_vars

\* C12 as stated: the sequential run Submit(u1,100), Submit(u2,200),
\* Submit(u1,300) on an empty descending leaderboard returns (rank 1,
\* previousRank 0, rankChange 0), (rank 1, leaving u1 at cache rank 2) and
\* (previousRank 2, rank 1, rankChange 1, previousScore 100); and of every
\* submission that overlaps no other, the cache working, previousRank is the
\* user's cache rank just before the call and rank the one just after it.
C12_SequentialSubmissions == []C12_Scenario /\ C12_RanksAreCacheRanks

\* Process p is inside the SubmitScore of an entry of its batch.
InBatchEntry(p) ==
    /\ loc[p].op = "BatchSubmitScores"
    /\ pc[p] \in {"sub_getuserscore", "sub_previousrank", "sub_create",
                  "sub_setscore", "sub_newrank"}

\* The tallies of the batch of process p: a result per success, a message
\* per failure, and every entry either tallied, in progress or still queued.
BatchTallies(p) ==
    /\ Len(loc[p].results) = loc[p].successCount
    /\ Len(loc[p].errors) = loc[p].failureCount
    /\ loc[p].successCount + loc[p].failureCount + Len(loc[p].queue)
           + (IF InBatchEntry(p) THEN 1 ELSE 0) = Len(loc[p].request)
    /\ \A i \in 1..Len(loc[p].results) :
          \E j \in 1..Len(history) :
              /\ history[j].user = loc[p].results[i].user
              /\ history[j].score = loc[p].results[i].score

\* C13: BatchSubmitScores returns no error; when it returns every entry has
\* been processed, successCount + failureCount is the number of entries,
\* there is a result per success (its record appended) and a message per
\* failure; an entry that fails leaves the entries after it queued, and each
\* of them is then submitted in turn.
C13_BatchIsolation ==
    /\ [](\A p \in Procs :
             loc[p].op = "BatchSubmitScores" =>
                /\ BatchTallies(p)
                /\ pc[p] = "done" =>
                      /\ loc[p].err = ""
                      /\ loc[p].queue = << >>
                      /\ loc[p].successCount + loc[p].failureCount = Len(loc[p].request))
    /\ [][\A p \in Procs :
             /\ (InBatchEntry(p) /\ Steps(p) /\ ~InBatchEntry(p)')
                => /\ pc'[p] = "bs_next"
                   /\ loc'[p].queue = loc[p].queue
             /\ (/\ loc[p].op = "BatchSubmitScores"
                 /\ pc[p] = "bs_next"
                 /\ loc[p].queue # << >>
                 /\ Steps(p))
                => /\ loc'[p].user = Head(loc[p].queue).user
                   /\ loc'[p].score = Head(loc[p].queue).score
                   /\ loc'[p].queue = Tail(loc[p].queue)]_vars

\* C13 witness: a batch of two entries has returned; the first entry failed
\* after its record was built, the second succeeded, its record appended and
\* its user cached.
C13_Witness ==
    /\ Returned(1, "BatchSubmitScores")
    /\ Len(loc[1].request) = 2
    /\ loc[1].failureCount = 1
    /\ loc[1].successCount = 1
    /\ Len(history) = 1
    /\ history[1].at = 2
    /\ history[1].user = loc[1].results[1].user
    /\ history[1].user \in DOMAIN zset

\* The request of process p has three entries of which the second alone
\* has a negative score.
SecondEntryNegative(p) ==
    /\ Len(loc[p].request) = 3
    /\ loc[p].request[1].score >= 0
    /\ loc[p].request[2].score < 0
    /\ loc[p].request[3].score >= 0

\* C14 as stated: when a batch submission of three entries whose second
\* entry has a negative score has been answered, successCount is 2 and
\* failureCount is 1, no negative score is in the history store or the
\* cache, and the users of the two valid entries have a record in the
\* history store and a rank in the cache.
C14_BatchWithInvalidEntry ==
    \A p \in Procs :
        (/\ pc[p] = "done"
         /\ loc[p].op \in {"BatchSubmit", "BatchSubmitScores"}
         /\ SecondEntryNegative(p))
        => /\ loc[p].successCount = 2
           /\ loc[p].failureCount = 1
           /\ \A i \in 1..Len(history) : history[i].score >= 0
           /\ \A u \in DOMAIN zset : zset[u] >= 0
           /\ \A i \in {1, 3} :
                 /\ loc[p].request[i].user \in UsersWithRecords(history)
                 /\ loc[p].request[i].user \in DOMAIN zset

\* C15: a RebuildLeaderboard whose AcquireLock is answered "not granted"
\* (the lock key exists) returns the "rebuild in progress" error at once: no
\* second attempt, the ranking cache and the history untouched, and the
\* lock of the other rebuild left in place.
C15_LockDenied ==
    [][\A p \in Procs :
          (/\ pc[p] = "rb_acquire"
           /\ Steps(p)
           /\ lock
           /\ loc'[p].err # "acquire_lock")
          => /\ pc'[p] = "done"
             /\ loc'[p].err = "rebuild_in_progress"
             /\ zset' = zset
             /\ zttl' = zttl
             /\ history' = history
             /\ lock']_vars

\* C15 witness: a rebuild has been refused and has returned while the
\* holder of the lock has yet to clear the cache, which still holds a score.
C15_Witness ==
    \E p, q \in Procs :
        /\ Rebuilding(p)
        /\ pc[p] = "rb_clear"
        /\ Returned(q, "RebuildLeaderboard")
        /\ loc[q].err = "rebuild_in_progress"
        /\ lock
        /\ DOMAIN zset # {}

\* C16 as stated: a ReleaseLock by a call whose lease is gone (the lock is
\* free, or another rebuild's SETNX has created the key anew) leaves the
\* lock as it is, so a lease held by another rebuild stays held; and a
\* second release changes nothing after a first.
C16_ReleaseByNonHolder ==
    /\ [](\A held \in BOOLEAN :
             ReleaseLock(ReleaseLock(held)) = ReleaseLock(held))
    /\ [][\A p \in Procs :
             (pc[p] = "rb_release" /\ Steps(p) /\ ~loc[p].lease)
                => /\ lock' = lock
                   /\ \A q \in Procs \ {p} : loc'[q].lease = loc[q].lease]_vars

\* C17: a DeleteLeaderboard whose soft delete succeeded returns without
\* error, the leaderboard's document still there, flagged inactive and
\* otherwise unchanged, and - when the cache's DEL succeeded - the ranking
\* cache empty; a DeleteLeaderboard whose soft delete failed (an error, or
\* no document with that id) returns the error and leaves the document and
\* the ranking cache as they were.
C17_DeleteInvalidatesCache ==
    [][\A p \in Procs :
          /\ (pc[p] = "idle" /\ loc'[p].op = "DeleteLeaderboard"
                  /\ loc'[p].err = "")
             => /\ pc'[p] = "del_clear"
                /\ lbDoc' = [lbDoc EXCEPT !.isActive = FALSE]
          /\ (pc[p] = "del_clear" /\ Steps(p))
             => /\ pc'[p] = "done"
                /\ loc'[p].err = ""
                /\ lbDoc' = lbDoc
                /\ ~lbDoc'.isActive
                /\ lbDoc'.sortOrder \in SortOrders
                /\ loc'[p].source = "cleared" => zset' = EmptyZSet
          /\ (pc[p] = "idle" /\ loc'[p].op = "DeleteLeaderboard"
                  /\ loc'[p].err # "")
             => /\ pc'[p] = "done"
                /\ lbDoc' = lbDoc
                /\ zset' = zset
                /\ zttl' = zttl]_vars

\* C17 witness: a delete has returned after clearing a ranking cache that
\* held a submitted score.
C17_Witness ==
    /\ Succeeded(2, "DeleteLeaderboard")
    /\ loc[2].source = "cleared"
    /\ ~lbDoc.isActive
    /\ history # << >>
    /\ zset = EmptyZSet
    /\ pc[1] = "idle"

\* The calls that resolve the leaderboard's configuration first.
ConfigReaders ==
    {"GetLeaderboard", "SubmitScore", "GetRankings", "GetUserRank",
     "RebuildLeaderboard"}

\* C18 as stated: a successful DeleteLeaderboard leaves no cached
\* configuration, and once the leaderboard is deleted every GetLeaderboard,
\* SubmitScore, GetRankings, GetUserRank and RebuildLeaderboard returns the
\* not-found error of the configuration lookup.
C18_DeletedNotFound ==
    [][\A p \in Procs :
          /\ (pc[p] = "del_clear" /\ Steps(p) /\ loc'[p].source = "cleared")
             => cfgCache' = NoConfig
          /\ (/\ ~lbDoc.isActive
              /\ pc[p] = "idle"
              /\ Steps(p)
              /\ loc'[p].op \in ConfigReaders)
             => /\ pc'[p] = "done"
                /\ loc'[p].err = "get_leaderboard"]_vars

\* The configuration a call holds in its local variables.
Held(l) ==
    [sortOrder |-> l.sortOrder, maxEntries |-> l.maxEntries, isActive |-> TRUE]

\* The steps of Create and Update, and the failures of GetLeaderboard: a
\* failed durable write returns an error and leaves the config cache as it
\* was; the cache write that follows a durable write never fails the call,
\* and when it succeeds the cache holds the written configuration; a
\* GetLeaderboard that fails leaves the config cache as it was.
RegistryWrites ==
    \A p \in Procs :
        /\ (pc[p] \in {"idle", "up_db"} /\ Steps(p) /\ lbDoc' = lbDoc
                /\ loc'[p].op \in {"CreateLeaderboard", "UpdateLeaderboard"}
                /\ pc'[p] = "done")
           => loc'[p].err # "" /\ cfgCache' = cfgCache
        /\ (pc[p] \in {"cr_cache", "up_cache"} /\ Steps(p))
           => /\ pc'[p] = "done"
              /\ loc'[p].err = ""
              /\ lbDoc' = lbDoc
              /\ lbDoc = Held(loc[p])
              /\ cfgCache' \in {cfgCache, lbDoc}
              /\ loc'[p].source = "cached" => cfgCache' = lbDoc
        /\ (pc[p] = "idle" /\ loc'[p].op = "GetLeaderboard"
                /\ loc'[p].err # "")
           => cfgCache' = cfgCache /\ lbDoc' = lbDoc

\* A successful GetLeaderboard is a hit, which returns the cached
\* configuration and changes nothing, or a miss, which returns the
\* document and stores it in the config cache unless that write fails;
\* with nothing cached it is a miss.
RegistryReads ==
    \A p \in Procs :
        (pc[p] = "idle" /\ loc'[p].op = "GetLeaderboard" /\ loc'[p].err = "")
        => /\ pc'[p] = "done"
           /\ lbDoc' = lbDoc
           /\ \/ /\ cfgCache # NoConfig
                 /\ Held(loc'[p]) = cfgCache
                 /\ cfgCache' = cfgCache
              \/ /\ lbDoc.isActive
                 /\ Held(loc'[p]) = lbDoc
                 /\ cfgCache' \in {cfgCache, lbDoc}
           /\ cfgCache = NoConfig => Held(loc'[p]) = lbDoc

\* C19 as stated: GetLeaderboard is cache-aside, Create, Get and Update
\* survive a failing config-cache write, a failed durable update leaves the
\* config cache unchanged, and - the calls running one after the other - a
\* GetLeaderboard returns the configuration the last successful
\* UpdateLeaderboard wrote (the document's).
C19_RegistryWriteThrough ==
    [][/\ RegistryWrites
       /\ RegistryReads
       /\ \A p \in Procs :
             (pc[p] = "idle" /\ loc'[p].op = "GetLeaderboard"
                 /\ loc'[p].err = "")
             => Held(loc'[p]) = lbDoc]_vars

\* C19 amended: as stated, except that after a successful UpdateLeaderboard
\* a GetLeaderboard returns the updated configuration when the config cache
\* holds it (the update's cache write succeeded) or holds nothing; when the
\* update's cache write failed, a hit returns the configuration cached
\* before the update for as long as that key lives.
C19_RegistryCacheAside ==
    [][/\ RegistryWrites
       /\ RegistryReads
       /\ \A p \in Procs :
             (pc[p] = "idle" /\ loc'[p].op = "GetLeaderboard"
                 /\ loc'[p].err = "")
             => /\ cfgCache \in {NoConfig, lbDoc} => Held(loc'[p]) = lbDoc
                /\ Held(loc'[p]) \in {cfgCache, lbDoc}]_vars

\* C19 witness: an update has returned without error although its
\* config-cache write failed, and the cache holds a configuration the
\* document no longer has.
C19_Witness ==
    /\ Succeeded(1, "UpdateLeaderboard")
    /\ loc[1].source = "cache_failed"
    /\ lbDoc = Held(loc[1])
    /\ cfgCache # NoConfig
    /\ cfgCache # lbDoc

\* C20: a GetRankings with offset # 0 goes to the history store's
\* GetTopScores without reading the ranking cache, and what it returns is
\* built from that result; a GetRankings with offset = 0 reads the cache
\* first and returns the cache's entries when that read succeeds with at
\* least one entry, and otherwise goes on to the history store.
C20_OffsetSpecialCasing ==
    [][\A p \in Procs :
          /\ (pc[p] = "idle" /\ loc'[p].op = "GetRankings" /\ pc'[p] # "done")
             => pc'[p] = IF loc'[p].offset = 0 THEN "rk_cache"
                         ELSE "rk_topscores"
          /\ (pc[p] = "rk_cache" /\ Steps(p))
             => /\ loc[p].offset = 0
                /\ IF pc'[p] = "done"
                   THEN /\ loc'[p].err = ""
                        /\ loc'[p].source = "cache"
                        /\ loc'[p].rankings =
                              GetTopRankings(zset, loc[p].limit, loc[p].sortOrder)
                        /\ Len(loc'[p].rankings) > 0
                   ELSE pc'[p] = "rk_topscores"
                /\ DOMAIN zset = {} => pc'[p] = "rk_topscores"
          /\ (pc[p] = "rk_topscores" /\ Steps(p) /\ loc'[p].err = "")
             => /\ loc'[p].source = "history"
                /\ \E keyOrder \in SortKeyOrders :
                      loc'[p].rankings =
                          RankingEntries(
                              GetTopScores(Docs, loc[p].limit + loc[p].offset,
                                           loc[p].sortOrder, keyOrder),
                              loc[p].limit, loc[p].offset)
          /\ (/\ loc'[p].op = "GetRankings"
              /\ loc'[p].source = "cache"
              /\ loc[p].source # "cache")
             => loc'[p].offset = 0 /\ pc[p] = "rk_cache"]_vars

\* C20 witness: a GetRankings with offset 1 has returned the second entry
\* of the history store's result while the cache held both users.
C20_Witness ==
    /\ Succeeded(1, "GetRankings")
    /\ loc[1].offset = 1
    /\ loc[1].source = "history"
    /\ Len(loc[1].rankings) = 1
    /\ loc[1].rankings[1].rank = 2
    /\ DOMAIN zset = Users

\* The entries of an around-user response that returned without error, for a
\* window of `most` entries at the most: they include the user, each carries
\* its user's 1-based rank in the sorted set, the ranks are consecutive, and
\* they run from `half` ranks before the user's to `half` ranks after it, cut
\* at the first and at the last rank of the sorted set.
AroundWindow(p, most) ==
    LET r == loc[p].rankings
        half == loc[p].limit \div 2
        userRank == GetRank(zset, loc[p].user, loc[p].sortOrder)
        first == IF userRank - half < 1 THEN 1 ELSE userRank - half
        last == IF userRank + half > ZCard(zset) THEN ZCard(zset)
                ELSE userRank + half
    IN  /\ Len(r) <= most
        /\ \E i \in 1..Len(r) : r[i].user = loc[p].user
        /\ \A i \in 1..Len(r) :
              r[i].rank = GetRank(zset, r[i].user, loc[p].sortOrder)
        /\ \A i \in 1..(Len(r) - 1) : r[i + 1].rank = r[i].rank + 1
        /\ r[1].rank = first
        /\ r[Len(r)].rank = last
        /\ (ZCard(zset) = 2 /\ loc[p].limit = 4)
              => {r[i].user : i \in 1..Len(r)} = DOMAIN zset

\* C21 (as stated): GetRankingsAroundUser(user, count) for a cached user returns
\* at most `count` entries that contain the user, are a contiguous run of
\* cache ranks in rank order with each rank field the entry's cache rank, the
\* window clamped at the first and last rank; two cached users and count = 4
\* give both users.
C21_AroundWindowOfCount ==
    \A p \in Procs :
        Succeeded(p, "GetRankingsAroundUser")
            => AroundWindow(p, loc[p].limit)

\* C21 (amended): as above, the list holding at most 2 * (count / 2) + 1
\* entries - the user's own and count / 2 on either side - which is count + 1
\* for an even count.
C21_AroundWindowCentred ==
    \A p \in Procs :
        Succeeded(p, "GetRankingsAroundUser")
            => AroundWindow(p, 2 * (loc[p].limit \div 2) + 1)

\* An even count returned count + 1 entries, and a window was cut at an edge.
C21_Witness ==
    \E p \in Procs :
        /\ Succeeded(p, "GetRankingsAroundUser")
        /\ loc[p].limit = 2
        /\ Len(loc[p].rankings) = 3
        /\ loc[p].rankings[2].user = loc[p].user

\* Process p is inside a call of GetRankingsAroundUser, or starts one.
InAround(p) == pc[p] \in {"ar_rank", "ar_range"}

StartsAround(p) == pc[p] = "idle" /\ loc'[p].op = "GetRankingsAroundUser"

\* C22: GetRankingsAroundUser fails with "user not in leaderboard" exactly when
\* the user has no score in the sorted set at the time the call reads the
\* user's rank, whatever the history store holds; the call's store calls are
\* those of the registry and of the cache only (it never turns to the history
\* store), and none of its steps changes the sorted set or the history.
C22_AroundNoFallback ==
    /\ [](\A p \in Procs :
            loc[p].op = "GetRankingsAroundUser"
                => /\ pc[p] \in {"ar_rank", "ar_range", "done"}
                   /\ loc[p].source \in {"", "cache"}
                   /\ (loc[p].err = "user_not_in_leaderboard"
                          => loc[p].rankings = << >>))
    /\ [][\A p \in Procs :
            /\ (pc[p] = "ar_rank" /\ Steps(p))
                  => ((loc'[p].err = "user_not_in_leaderboard")
                          <=> (loc[p].user \notin DOMAIN zset))
            /\ ((InAround(p) \/ StartsAround(p)) /\ Steps(p))
                  => UNCHANGED <<history, purged, clock, zset, zttl, lock, lbDoc>>
            /\ (pc[p] = "ar_range" /\ Steps(p))
                  => loc'[p].err # "user_not_in_leaderboard"]_vars

\* The call failed for a user with a record in the history store, the sorted
\* set having been cleared by a rebuild still in progress.
C22_Witness ==
    /\ Returned(2, "GetRankingsAroundUser")
    /\ loc[2].err = "user_not_in_leaderboard"
    /\ loc[2].user \in UsersWithRecords(Docs)
    /\ pc[1] \in {"rb_topscores", "batch"}
    /\ loc[2].user \notin DOMAIN zset

\* Part, and only part, of process p's BatchSetScores has reached the server:
\* some ZADD or the EXPIRE is still to come.
PartlyApplied(p) ==
    pc[p] = "batch" /\ loc[p].pending # loc[p].batch

\* The step process q takes next is a call on the sorted set: GetRank,
\* SetScore, GetTopRankings, GetScore, GetLeaderboardSize, the around-user
\* reads or ClearLeaderboard.
SortedSetCall(q) ==
    pc[q] \in {"sub_previousrank", "sub_setscore", "sub_newrank", "rk_cache",
               "ur_score", "ur_rank", "ur_size", "ar_rank", "ar_range",
               "rb_clear", "del_clear"}

\* C23: BatchSetScores applies its updates and the expiry refresh as one
\* indivisible step: no read or write of the sorted set by another call
\* happens in a state in which only part of the batch has been applied.
C23_BatchSetAtomic ==
    [][\A p \in Procs : \A q \in Procs \ {p} :
            (PartlyApplied(p) /\ Steps(q)) => ~SortedSetCall(q)]_vars

\* Users other than userID whose latest document strictly outranks the
\* latest document of userID under sortOrder.
Outranking(h, userID, sortOrder) ==
    {r \in LatestPerUser(h) :
        /\ r.user # userID
        /\ IF sortOrder = SortOrderDesc
           THEN r.score > GetUserScore(h, userID).score
           ELSE r.score < GetUserScore(h, userID).score}

\* C24: the repository's GetUserRank returns, for a user with a record, 1 +
\* the number of other users whose latest score strictly outranks the user's
\* latest score, and the "no record" error for a user without one.
C24_HistoryRank ==
    [][\A p \in Procs :
            (pc[p] = "ur_dbrank" /\ Steps(p))
                => IF GetUserScore(Docs, loc[p].user) = NoRecord
                   THEN loc'[p].err = "get_user_rank"
                   ELSE /\ loc'[p].err = ""
                        /\ loc'[p].rank =
                              1 + Cardinality(Outranking(Docs, loc[p].user,
                                                         loc[p].sortOrder))]_vars

\* The list r of entries is a page of topK over the documents h: at most k
\* entries, no user twice, each entry with the score of its user's latest
\* document, the better score first and of equal scores the one submitted
\* later first.
PageOfTopK(r, h, k, sortOrder) ==
    /\ Len(r) <= k
    /\ \A i, j \in 1..Len(r) : r[i].user = r[j].user => i = j
    /\ \A i \in 1..Len(r) :
          /\ r[i].user \in UsersWithRecords(h)
          /\ r[i].score = GetUserScore(h, r[i].user).score
    /\ \A i, j \in 1..Len(r) :
          i < j => \/ Better(r[i].score, r[j].score, sortOrder)
                   \/ /\ r[i].score = r[j].score
                      /\ GetUserScore(h, r[i].user).at
                            > GetUserScore(h, r[j].user).at

\* C25: GetTopScores(k, sortOrder) with k > 0 returns at most k records, at
\* most one per user, each the user's latest, ordered by score in the
\* direction of sortOrder, equal scores most recent first (observed where
\* GetRankings converts the records it read into its response).
C25_HistoryTopK ==
    [][\A p \in Procs :
            (pc[p] = "rk_topscores" /\ Steps(p) /\ loc'[p].err = "")
                => PageOfTopK(loc'[p].rankings, Docs,
                              loc[p].limit + loc[p].offset,
                              loc[p].sortOrder)]_vars

\* The sorted set a warm cache holds for the documents h: every user with
\* the score of the user's latest document.
WarmCache(h) ==
    [u \in UsersWithRecords(h) |-> Float64(GetUserScore(h, u).score)]

PairwiseDistinct(z) == \A a, b \in DOMAIN z : z[a] = z[b] => a = b

\* C26: GetUserRank for a user absent from the sorted set but with a history
\* record succeeds with the latest record's score and the history store's
\* rank; it fails with "no record" only when the user has neither a cached
\* score nor a record; and for pairwise distinct scores the rank answered
\* from the history store is the rank a warm cache gives (calls that found
\* the leaderboard).
C26_UserRankFallback ==
    \A p \in Procs :
        (Returned(p, "GetUserRank") /\ loc[p].err # "get_leaderboard") =>
            LET userID == loc[p].user
                record == GetUserScore(Docs, userID)
            IN  /\ (userID \notin DOMAIN zset /\ record # NoRecord)
                      => /\ loc[p].err = ""
                         /\ loc[p].score = record.score
                         /\ loc[p].source = "history"
                /\ loc[p].err = "no_score_record"
                      => (userID \notin DOMAIN zset /\ record = NoRecord)
                /\ (loc[p].err = "" /\ loc[p].source = "history"
                        /\ PairwiseDistinct(WarmCache(Docs)))
                      => loc[p].rank = GetRank(WarmCache(Docs), userID,
                                               loc[p].sortOrder)

\* The leaderboard resolves to not-found: no cached configuration and no
\* active document.
NotFound == cfgCache = NoConfig /\ ~lbDoc.isActive

\* C27: a SubmitScore whose leaderboard resolves to not-found returns an
\* error at once, appends no record and leaves the sorted set as it is.
C27_SubmitUnknownLeaderboard ==
    [][\A p \in Procs :
            (pc[p] = "idle" /\ loc'[p].op = "SubmitScore" /\ NotFound)
                => /\ pc'[p] = "done"
                   /\ loc'[p].err = "get_leaderboard"
                   /\ UNCHANGED <<history, purged, zset, zttl, cfgCache>>]_vars

\* A submission to the deleted leaderboard has returned its error.
C27_Witness ==
    /\ Returned(1, "SubmitScore")
    /\ loc[1].err = "get_leaderboard"
    /\ NotFound

\* C28: when SubmitScore builds its record, previousScore is the score of the
\* user's latest history document (0 without one) and previousRank is the
\* user's rank in the sorted set (0 when the user is not in it), the history
\* store playing no part in it; a submission that found previousRank 0
\* returns rankChange 0.
C28_PreviousState ==
    \A p \in Procs :
        /\ pc[p] = "sub_create"
              => LET record == GetUserScore(Docs, loc[p].user)
                 IN  /\ loc[p].previousScore =
                           (IF record = NoRecord THEN 0 ELSE record.score)
                     /\ loc[p].previousRank =
                           GetRank(zset, loc[p].user, loc[p].sortOrder)
        /\ (Succeeded(p, "SubmitScore") /\ loc[p].previousRank = 0)
              => loc[p].rankChange = 0

\* The step process p takes in a call of RebuildLeaderboard keeps to the
\* order Idle -> Locked -> Cleared -> Repopulated -> Idle, or Idle ->
\* LockDenied -> Idle.  Locked is the call about to clear (rb_clear), Cleared
\* the call about to read topK (rb_topscores), then the pipeline of batchSet
\* (batch), Repopulated the call about to release (rb_release).  With
\* strict = FALSE a store call that fails may end the path early: before the
\* grant by returning, after it by going to the release.
RebuildStepOrder(p, strict) ==
    /\ (pc[p] = "idle" /\ loc'[p].op = "RebuildLeaderboard")
          => /\ UNCHANGED <<zset, lock>>
             /\ \/ pc'[p] = "rb_acquire"
                \/ ~strict /\ pc'[p] = "done"
                           /\ loc'[p].err = "get_leaderboard"
    /\ (pc[p] = "rb_acquire" /\ Steps(p))
          => /\ zset' = zset
             /\ \/ pc'[p] = "rb_clear" /\ ~lock /\ lock'
                \/ /\ pc'[p] = "done" /\ lock /\ lock'
                   /\ loc'[p].err = "rebuild_in_progress"
                \/ ~strict /\ pc'[p] = "done" /\ lock' = lock
                           /\ loc'[p].err = "acquire_lock"
    /\ (pc[p] = "rb_clear" /\ Steps(p))
          => /\ lock /\ lock'
             /\ \/ pc'[p] = "rb_topscores" /\ zset' = EmptyZSet
                \/ ~strict /\ pc'[p] = "rb_release" /\ zset' = zset
                           /\ loc'[p].err = "clear_leaderboard"
    /\ (pc[p] = "rb_topscores" /\ Steps(p))
          => /\ lock /\ lock' /\ zset' = zset
             /\ \/ \E keyOrder \in SortKeyOrders :
                      LET records == GetTopScores(Docs, loc[p].maxEntries,
                                                  loc[p].sortOrder, keyOrder)
                      IN  IF Len(records) > 0
                          THEN /\ pc'[p] = "batch"
                               /\ loc'[p].batch = ScoresOf(records)
                               /\ loc'[p].pending = ScoresOf(records)
                          ELSE pc'[p] = "rb_release" /\ loc'[p].err = ""
                \/ ~strict /\ pc'[p] = "rb_release"
                           /\ loc'[p].err = "get_top_scores"
    /\ (pc[p] = "batch" /\ loc[p].op = "RebuildLeaderboard" /\ Steps(p))
          => /\ lock /\ lock'
             /\ \/ /\ pc'[p] = "batch"
                   /\ \E u \in DOMAIN loc[p].pending :
                         zset' = ZAdd(zset, u, Float64(loc[p].batch[u]))
                \/ /\ pc'[p] = "rb_release" /\ loc'[p].err = ""
                   /\ DOMAIN loc[p].pending = {} /\ zset' = zset
                \/ ~strict /\ pc'[p] = "rb_release" /\ zset' = zset
                           /\ loc'[p].err = "batch_set_scores"
    /\ (pc[p] = "rb_release" /\ Steps(p))
          => pc'[p] = "done" /\ zset' = zset

\* C29 (as stated): every execution of RebuildLeaderboard follows Idle ->
\* Locked -> Cleared -> Repopulated -> Idle or Idle -> LockDenied -> Idle: the
\* clear only after the grant and before the topK read, the batchSet after
\* the clear with the topK read after it, both before the release.
C29_RebuildStepOrder ==
    [][\A p \in Procs : RebuildStepOrder(p, TRUE)]_vars

\* C29 (amended): as above, except that an execution one of whose store calls
\* fails leaves the path at that call: it returns when the configuration read
\* or the lock request fails, and goes on to the release of the lock when the
\* clear, the topK read or the batchSet fails.
C29_RebuildStepOrderOrFailure ==
    [][\A p \in Procs : RebuildStepOrder(p, FALSE)]_vars

\* A rebuild went all the way - grant, clear, topK, batchSet, release - and
\* left a repopulated sorted set.
C29_Witness ==
    \E p \in Procs :
        /\ Succeeded(p, "RebuildLeaderboard")
        /\ loc[p].source = "released"
        /\ loc[p].cached # EmptyZSet

\* Two submissions of the same user have both returned without error, each
\* having set its score in the sorted set.
SameUserPair(p, q) ==
    /\ p # q
    /\ Succeeded(p, "SubmitScore") /\ Succeeded(q, "SubmitScore")
    /\ loc[p].user = loc[q].user
    /\ loc[p].cacheSet = "ok" /\ loc[q].cacheSet = "ok"

\* The record process p built for its submission.
RecordOf(p) ==
    [user |-> loc[p].user, score |-> loc[p].score,
     prev |-> loc[p].previousScore, at |-> loc[p].at]

\* The score the sorted set keeps for a submitted score: its conversion to
\* float64, or (converted = FALSE) the score as submitted.
Stored(score, converted) == IF converted THEN Float64(score) ELSE score

\* What C30 says of two submissions of one user: an append puts the call's record at the end of the
\* history, a cache set makes the call's score the user's score whatever the
\* history's latest record is, and after two submissions of one user both
\* records are in the history and the user's cached score is that of one of
\* the two.
SameUserOutcome(converted) ==
    \A p, q \in Procs :
        SameUserPair(p, q)
            => /\ Appended(p) /\ Appended(q)
               /\ loc[p].user \in DOMAIN zset
               /\ GetScore(zset, loc[p].user)
                     \in {Stored(loc[p].score, converted),
                          Stored(loc[q].score, converted)}

SameUserStep(converted) ==
    \A p \in Procs :
        /\ (pc[p] = "sub_create" /\ pc'[p] = "sub_setscore")
              => history' = Append(history, RecordOf(p))
        /\ (pc[p] = "sub_setscore" /\ pc'[p] = "sub_newrank")
              => /\ loc[p].user \in DOMAIN zset'
                 /\ GetScore(zset', loc[p].user)
                       = Stored(loc[p].score, converted)
                 /\ history' = history

\* C30 (as stated): two concurrent successful submissions of one user leave
\* both records in the history in the order of their appends and the cache
\* with the score of the cache set applied last, which is one of the two
\* submitted scores and may differ from the latest history record's.
C30_SameUserRace ==
    []SameUserOutcome(FALSE) /\ [][SameUserStep(FALSE)]_vars

\* C30 (amended): the same, the cached score being the conversion to float64
\* of one of the two submitted scores (the score itself up to 2^53).
C30_SameUserRaceFloat64 ==
    []SameUserOutcome(TRUE) /\ [][SameUserStep(TRUE)]_vars

\* Two overlapping submissions of one user have returned and the cached
\* score is not the score of the user's latest history record.
C30_Witness ==
    \E p, q \in Procs :
        /\ SameUserPair(p, q)
        /\ loc[p].at < loc[q].at
        /\ loc[p].score # loc[q].score
        /\ GetUserScore(Docs, loc[p].user) = RecordOf(q)
        /\ GetScore(zset, loc[p].user) = loc[p].score

\* C31: a rebuild that dies holding the lock does not block rebuilds for
\* ever - the lease runs out and the rebuild asked for again is granted the
\* lock; a granted rebuild that does not die comes to its release and
\* returns; and the lock is never held for ever.
C31_LeaseBackstop ==
    /\ (pc[1] = "crashed") ~> (\E p \in Procs \ {1} : loc[p].lease)
    /\ \A p \in Procs : Rebuilding(p) ~> (pc[p] \in {"done", "crashed"})
    /\ lock ~> ~lock

\* Process 1 died holding the lock and process 2 was granted it afterwards.
C31_Witness ==
    /\ pc[1] = "crashed"
    /\ loc[2].lease
    /\ lock

\* GetRankings of process p has returned entries read from the history store.
AnsweredFromHistory(p) ==
    /\ Succeeded(p, "GetRankings")
    /\ loc[p].source = "history"
    /\ Len(loc[p].rankings) > 0

\* Every entry process p returned is in the sorted set, with the entry's
\* score or (converted) with its conversion to float64.
WrittenBack(p, converted) ==
    \A i \in 1..Len(loc[p].rankings) :
        /\ loc[p].rankings[i].user \in DOMAIN zset
        /\ GetScore(zset, loc[p].rankings[i].user)
              = Stored(loc[p].rankings[i].score, converted)

\* C32 (as stated): whenever GetRankings is answered from the history store
\* the entries it returns are written back: after the call, the write-back
\* not having failed, every returned user is in the sorted set with the
\* returned score; a failed write-back does not fail the read.
C32_WarmUp ==
    \A p \in Procs :
        AnsweredFromHistory(p)
            => (loc[p].cacheSet # "failed" => WrittenBack(p, FALSE))

\* C32 (amended): the write-back is made for offset 0 only, and it stores the
\* conversion to float64 of the returned scores; a read with an offset
\* leaves the sorted set as it is.
C32_WarmUpOfFirstPage ==
    /\ [](\A p \in Procs :
            AnsweredFromHistory(p)
                => IF loc[p].offset = 0
                   THEN /\ loc[p].cacheSet \in {"ok", "failed"}
                        /\ loc[p].cacheSet = "ok" => WrittenBack(p, TRUE)
                   ELSE loc[p].cacheSet = "")
    /\ [][\A p \in Procs :
            (loc[p].op = "GetRankings" /\ loc[p].offset # 0 /\ Steps(p))
                => UNCHANGED <<zset, zttl>>]_vars

\* A first page of two entries read from the history store was written back.
C32_Witness ==
    \E p \in Procs :
        /\ AnsweredFromHistory(p)
        /\ loc[p].offset = 0
        /\ loc[p].cacheSet = "ok"
        /\ Len(loc[p].rankings) = 2

\* No call is in progress: every call made so far has returned.
BetweenCalls == \A p \in Procs : pc[p] \in {"idle", "done"}

\* C33 (as stated): between non-overlapping calls, no store call having
\* failed, every user in the sorted set has a history record and is cached
\* with the score of the latest one.
C33_SequentialConsistency ==
    BetweenCalls
        => \A u \in DOMAIN zset :
              /\ GetUserScore(Docs, u) # NoRecord
              /\ GetScore(zset, u) = GetUserScore(Docs, u).score

\* C33 (amended): ... every user in the sorted set is cached with the float64
\* conversion of the score of the latest record inserted for that user,
\* whether or not the TTL index has removed that record since.
C33_SequentialConsistencyInserted ==
    BetweenCalls
        => \A u \in DOMAIN zset :
              /\ GetUserScore(history, u) # NoRecord
              /\ zset[u] = Float64(GetUserScore(history, u).score)

\* Between two calls the sorted set holds a user all of whose records the
\* TTL index has removed, and a user whose cached score is not the score of
\* the user's latest record.
C33_Witness ==
    /\ Quiet
    /\ \E u \in DOMAIN zset : RecordsOf(Docs, u) = {}
    /\ \E v \in DOMAIN zset :
          /\ GetUserScore(Docs, v) # NoRecord
          /\ GetScore(zset, v) # GetUserScore(Docs, v).score

\* Every score in the history is exactly convertible to float64.
ExactHistory == \A i \in 1..Len(history) : Float64(history[i].score) = history[i].score

\* C34: a SubmitScore for a user and a RebuildLeaderboard of the leaderboard
\* (no entry limit, scores exactly convertible) have both returned without
\* error: the user is in the sorted set with the score of the user's latest
\* history record, however the two calls overlapped.
C34_SubmissionNotLost ==
    \A p, q \in Procs :
        (/\ Succeeded(p, "SubmitScore") /\ loc[p].cacheSet = "ok"
         /\ Succeeded(q, "RebuildLeaderboard") /\ loc[q].maxEntries = 0
         /\ ExactHistory)
            => /\ loc[p].user \in DOMAIN zset
               /\ GetScore(zset, loc[p].user)
                     = GetUserScore(Docs, loc[p].user).score

\* C35: the lease of rebuild B (process 2, whose lease does not expire) is
\* not freed by the release of a rebuild A whose own lease expired: while B
\* is between its acquire and its release the lock is held, and no other
\* rebuild is granted it.
C35_ExclusionSurvivesExpiry ==
    /\ [](Rebuilding(2) => lock)
    /\ [][(pc[1] = "rb_acquire" /\ pc'[1] = "rb_clear") => ~Rebuilding(2)]_vars


\* The score of the record of the user inserted last in the collection h,
\* 0 when the user has no record there.
PrecedingScore(h, userID) ==
    LET I == {i \in 1..Len(h) : h[i].user = userID}
    IN  IF I = {} THEN 0
        ELSE h[CHOOSE i \in I : \A j \in I : j <= i].score

\* C36: every record SubmitScore appends carries as previousScore the score
\* of the record that immediately precedes it in the user's history, 0 for
\* the user's first record - also when two submissions of the user overlap
\* between the read of the latest record and the append.
C36_SupersessionChain ==
    [][Len(history') = Len(history) + 1
          => LET record == history'[Len(history')]
             IN  record.prev = PrecedingScore(Docs, record.user)]_vars


\* No two users have the same latest score in the documents h.
DistinctLatest(h) ==
    \A q, r \in LatestPerUser(h) : q.score = r.score => q.user = r.user

\* The first n entries of topK over the documents h as ranking entries:
\* latest record per user, sorted by score in the direction of sortOrder.
TopN(h, n, sortOrder) ==
    RankingEntries(SortRecords(LatestPerUser(h), sortOrder, "score_first"),
                   n, 0)

\* Process p takes the step of GetRankings(limit, 0) that fixes the response:
\* the cache read that is served, or the history read.
AnswersFirstPage(p) ==
    /\ loc[p].op = "GetRankings" /\ loc[p].offset = 0
    /\ \/ pc[p] = "rk_cache" /\ pc'[p] = "done"
       \/ pc[p] = "rk_topscores" /\ Steps(p)
    /\ loc'[p].err = ""

\* C37: in states reached by operations one after the other, the users'
\* latest scores pairwise distinct, GetRankings(limit, 0) answers with the
\* users, scores and ranks of the first `limit` entries of the history's
\* topK - min(limit, users with a record) entries, also when the sorted set
\* holds only part of the users.
C37_TopNFromCache ==
    [][\A p \in Procs :
            (AnswersFirstPage(p) /\ DistinctLatest(Docs))
                => loc'[p].rankings
                      = TopN(Docs, loc[p].limit, loc[p].sortOrder)]_vars


\* C38: a GetLeaderboard that missed the configuration key and an
\* UpdateLeaderboard of the same leaderboard have both completed: the cached
\* configuration is the document's; and the reader's write of the key never
\* replaces a cached configuration equal to the document by another one.
C38_ConfigCacheConverges ==
    /\ []((/\ Succeeded(1, "GetLeaderboard") /\ loc[1].source = "document"
           /\ Succeeded(2, "UpdateLeaderboard"))
              => cfgCache = lbDoc)
    /\ [][(pc[1] = "gl_setconfig" /\ pc'[1] = "done" /\ cfgCache = lbDoc)
              => cfgCache' = lbDoc']_vars


\* C39: every GetUserRank that returns without error answers with
\* 1 <= rank <= totalUsers, also where the score or the rank comes from the
\* history store and totalUsers from the sorted set's cardinality.
C39_UserRankWithinTotal ==
    \A p \in Procs :
        Succeeded(p, "GetUserRank")
            => 1 <= loc[p].rank /\ loc[p].rank <= loc[p].totalUsers


\* The batch of process p has returned: every entry, whatever its own
\* leaderboard_id, has appended its record to the leaderboard's history, the
\* records in input order, and the results list the entries in input order.
BatchInOrder(p) ==
    LET request == loc[p].request
        results == loc[p].results
        first == Len(history) - Len(request)
    IN  /\ Len(results) = Len(request)
        /\ first >= 0
        /\ \A i \in 1..Len(request) :
              /\ results[i].user = request[i].user
              /\ results[i].score = request[i].score
              /\ history[first + i].user = request[i].user
              /\ history[first + i].score = request[i].score

\* Entries i < j of the request are of one user with no entry of that user
\* between them.
NextOfUser(request, i, j) ==
    /\ i < j
    /\ request[i].user = request[j].user
    /\ \A k \in (i + 1)..(j - 1) : request[k].user # request[i].user

\* The later of two entries of one user reports the earlier entry's score as
\* previousScore and the earlier entry's rank as previousRank (adjacent: of
\* two entries that follow each other directly).
SameUserTwice(p, adjacent) ==
    LET request == loc[p].request
        results == loc[p].results
    IN  \A i, j \in 1..Len(request) :
            NextOfUser(request, i, j)
                => /\ results[j].previousScore = request[i].score
                   /\ (~adjacent \/ j = i + 1)
                         => results[j].previousRank = results[i].rank

\* Each user of the batch has in the sorted set the score of the user's last
\* entry (converted: its conversion to float64).
FinalCachedScore(p, converted) ==
    LET request == loc[p].request
    IN  \A i \in 1..Len(request) :
            (\A k \in (i + 1)..Len(request) : request[k].user # request[i].user)
                => /\ request[i].user \in DOMAIN zset
                   /\ GetScore(zset, request[i].user)
                         = Stored(request[i].score, converted)

====
